---- MODULE Spec2Model ----
(***************************************************************************)
(* Unit Spark: the WorkOS hybrid integration (local mirror of users,       *)
(* organizations and memberships kept in sync by webhooks, the session     *)
(* middleware and the OAuth callback), the Express application, the        *)
(* Navigation component and the deployment workflow.                       *)
(***************************************************************************)
EXTENDS Integers, Sequences, FiniteSets, TLC

\* ------------------------------------------------------------------------
\* Bounds of the model
\* ------------------------------------------------------------------------
MaxEvents == 3      \* WorkOS user events emitted in one behaviour
MaxOrgEvents == 2   \* WorkOS organization and membership events emitted
MaxCopies == 2      \* deliveries WorkOS makes of one event (at-least-once)
MaxClock == 1       \* distinct instants new Date() returns

\* ------------------------------------------------------------------------
\* Values
\* ------------------------------------------------------------------------
Null == "<null>"

WorkosUserIds == {"user_01", "user_02"}
WorkosOrgIds == {"org_01", "org_02"}

\* profiles a WorkOS user can carry (first_name / last_name may be null)
Profiles ==
  { [email |-> "ann@x", firstName |-> "Ann", lastName |-> Null],
    [email |-> "bo@x", firstName |-> Null, lastName |-> "Lee"] }

NoProfile == [email |-> Null, firstName |-> Null, lastName |-> Null]

\* organization names, as sequences of characters
OrgNames ==
  { <<"T", "1">>, <<"!", "t", " ", " ", "1", "!">>, <<"t", "-", "1">> }

\* role strings WorkOS sends with a membership
WorkosRoles == {"Admin", "member"}

UpperCase ==
  <<"A","B","C","D","E","F","G","H","I","J","K","L","M",
    "N","O","P","Q","R","S","T","U","V","W","X","Y","Z">>
LowerCase ==
  <<"a","b","c","d","e","f","g","h","i","j","k","l","m",
    "n","o","p","q","r","s","t","u","v","w","x","y","z">>
Digits == {"0","1","2","3","4","5","6","7","8","9"}

\* String.prototype.toLowerCase on one character
toLowerCaseChar(c) ==
  IF \E i \in 1..26 : UpperCase[i] = c
    THEN LowerCase[CHOOSE i \in 1..26 : UpperCase[i] = c]
    ELSE c

\* the character class [a-z0-9]
IsSlugChar(c) == (\E i \in 1..26 : LowerCase[i] = c) \/ c \in Digits

\* .replace(/[^a-z0-9]+/g, '-'): every maximal run of other characters
\* becomes one '-'
RECURSIVE ReplaceRuns(_, _)
ReplaceRuns(s, inRun) ==
  IF s = <<>> THEN <<>>
  ELSE IF IsSlugChar(Head(s)) THEN <<Head(s)>> \o ReplaceRuns(Tail(s), FALSE)
  ELSE IF inRun THEN ReplaceRuns(Tail(s), TRUE)
  ELSE <<"-">> \o ReplaceRuns(Tail(s), TRUE)

\* .replace(/^-|-$/g, ''): one leading and one trailing '-' are removed
TrimDashes(s) ==
  LET a == IF s # <<>> /\ Head(s) = "-" THEN Tail(s) ELSE s
  IN IF a # <<>> /\ a[Len(a)] = "-" THEN SubSeq(a, 1, Len(a) - 1) ELSE a

generateSlug(name) ==
  TrimDashes(ReplaceRuns([i \in 1..Len(name) |-> toLowerCaseChar(name[i])], FALSE))

\* generateSlug on the names of the model, evaluated once
SlugOf == [n \in OrgNames \cup {<<>>} |-> generateSlug(n)]

\* x || '' on a string that may be null
OrEmpty(x) == IF x = Null \/ x = "" THEN "" ELSE x

\* workosRole?.toLowerCase() on the role strings of the model
roleToLowerCase(r) ==
  IF r = "Admin" THEN "admin"
  ELSE IF r = "Owner" THEN "owner"
  ELSE IF r = "Viewer" THEN "viewer"
  ELSE r

mapWorkOSRole(workosRole) ==
  LET l == IF workosRole = Null THEN Null ELSE roleToLowerCase(workosRole)
  IN IF l = "owner" THEN "OWNER"
     ELSE IF l = "admin" THEN "ADMIN"
     ELSE IF l = "viewer" THEN "VIEWER"
     ELSE "MEMBER"


\* ------------------------------------------------------------------------
\* State
\* ------------------------------------------------------------------------
VARIABLES
  wUsers,         \* WorkOS directory: user id -> [state, profile]
  wOrgs,          \* WorkOS directory: organization id -> [state, name]
  wMembers,       \* WorkOS directory: set of <<user id, organization id>>
  inflight,       \* webhook events WorkOS still has to deliver
  sent,           \* number of events WorkOS emitted
  users,          \* table users
  organizations,  \* table organizations
  memberships,    \* table organization_memberships
  softDeleted,    \* ids logged by 'User soft-deleted from webhook'
  orgSoftDeleted, \* ids logged by 'Organization soft-deleted from webhook'
  lost,           \* subjects of events WorkOS stopped delivering after a 400
  resp,           \* what the last handler answered
  rateCount,      \* requests the rate limiter counted in the current window
  http,           \* what createApp answered to the last request
  navRevision,    \* the revision of Navigation.svelte rendered (0: none yet)
  mounted,        \* the component is mounted and listens to scroll events
  darkBackground, \* the component's prop
  scrolled,       \* the component's $state
  scrollY,        \* window.scrollY
  listeners,      \* the scroll listeners registered on window
  ciRun,          \* the event and ref that triggered the deploy workflow
  ciJobs,         \* job of deploy.yml -> status
  approval,       \* the reviewers' decision on the run's deployment
  sqs,            \* notifications-queue: message id -> [state, kind, receiveCount]
  notifications,  \* table notifications: notification id -> status
  workerPc,       \* where pollQueue stands
  batch,          \* response.Messages still to be handled by the for loop
  current,        \* the message processMessage returned for
  sbMessages,     \* QueueService.sendBatch: the argument of the call
  sbChunks,       \* sendBatch: const chunks
  sbRequests,     \* sendBatch: the SendMessageBatchCommands SQS accepted
  sbPc,           \* sendBatch: idle, in the for loop, returned or thrown
  sbFailed,       \* sendBatch: <<request, Id>> of the entries SQS reported in result.Failed
  server,         \* the HTTP server: starting, listening, closing or closed
  connections,    \* open connections of the HTTP server
  prismaConn,     \* the Prisma connection: connected or disconnected
  signal,         \* the signals the process received, in order
  dbHandler,      \* database.ts's signal handler: idle or disconnecting
  closeCallback,  \* the callback of server.close: idle or disconnecting
  timer,          \* the forced-shutdown timer: unset, armed or fired
  exited,         \* process.exit was called
  exitCode,       \* with this code
  siteReq,        \* what subdomainMiddleware did with the last request
  auditLogs,      \* table audit_logs
  entered,        \* the callers enterOrganization created a membership for
  enterPc,        \* where enterOrganization stands
  enterRes,        \* what enterOrganization answered to the last request
  contactMounted, \* the contact page is mounted
  formData,       \* the contact page's formData
  submitted,      \* the contact page's submitted
  shown,          \* what the page renders in place of the form: form or thanks
  pendingTimers,  \* reset timers of the mounted page that have not fired
  staleTimers,     \* reset timers of destroyed pages that have not fired
  reqs,            \* the requests of first logins in progress: request -> where it stands
  supportMounted, \* the support page is mounted
  openIndex,      \* the support page's $state: the open FAQ, NoIndex for null
  visibleAnswers  \* the FAQ indices whose answer is rendered

syncVars ==
  <<wUsers, wOrgs, wMembers, inflight, sent, users, organizations,
    memberships, softDeleted, orgSoftDeleted, lost, resp>>

appVars == <<rateCount, http>>

navVars == <<navRevision, mounted, darkBackground, scrolled, scrollY, listeners>>

ciVars == <<ciRun, ciJobs, approval>>

workerVars == <<sqs, notifications, workerPc, batch, current>>

sbVars == <<sbMessages, sbChunks, sbRequests, sbPc, sbFailed>>

serverVars ==
  <<server, connections, prismaConn, signal, dbHandler, closeCallback, timer, exited, exitCode>>

siteVars == <<siteReq>>

supportVars == <<auditLogs, entered, enterPc, enterRes>>

contactVars == <<contactMounted, formData, submitted, shown, pendingTimers, staleTimers>>

raceVars == <<reqs>>

faqVars == <<supportMounted, openIndex, visibleAnswers>>

vars ==
  <<syncVars, appVars, navVars, ciVars, workerVars, sbVars, serverVars, siteVars, supportVars, contactVars, raceVars, faqVars>>

\* the variables the operations of one part of the system leave alone
exceptSync == <<appVars, navVars, ciVars, workerVars, sbVars, serverVars, siteVars, supportVars, contactVars, raceVars, faqVars>>
exceptApp == <<syncVars, navVars, ciVars, workerVars, sbVars, serverVars, siteVars, supportVars, contactVars, raceVars, faqVars>>
exceptNav == <<syncVars, appVars, ciVars, workerVars, sbVars, serverVars, siteVars, supportVars, contactVars, raceVars, faqVars>>
exceptCi == <<syncVars, appVars, navVars, workerVars, sbVars, serverVars, siteVars, supportVars, contactVars, raceVars, faqVars>>
exceptWorker == <<syncVars, appVars, navVars, ciVars, sbVars, serverVars, siteVars, supportVars, contactVars, raceVars, faqVars>>
exceptQueueService == <<syncVars, appVars, navVars, ciVars, workerVars, serverVars, siteVars, supportVars, contactVars, raceVars, faqVars>>
exceptServer == <<syncVars, appVars, navVars, ciVars, workerVars, sbVars, siteVars, supportVars, contactVars, raceVars, faqVars>>
exceptSupport ==
  <<syncVars, appVars, navVars, ciVars, workerVars, sbVars, serverVars, siteVars, contactVars, raceVars, faqVars>>
exceptSite ==
  <<syncVars, appVars, navVars, ciVars, workerVars, sbVars, serverVars, supportVars, contactVars, raceVars, faqVars>>
exceptContact ==
  <<syncVars, appVars, navVars, ciVars, workerVars, sbVars, serverVars, siteVars, supportVars, raceVars, faqVars>>
exceptSyncSupport ==
  <<appVars, navVars, ciVars, workerVars, sbVars, serverVars, siteVars, contactVars, raceVars, faqVars>>
exceptRace ==
  <<syncVars, appVars, navVars, ciVars, workerVars, sbVars, serverVars, siteVars, supportVars, contactVars, faqVars>>
exceptSyncRace ==
  <<appVars, navVars, ciVars, workerVars, sbVars, serverVars, siteVars, supportVars, contactVars, faqVars>>
exceptFaq ==
  <<syncVars, appVars, navVars, ciVars, workerVars, sbVars, serverVars, siteVars, supportVars, contactVars, raceVars>>
exceptNavFaq ==
  <<syncVars, appVars, ciVars, workerVars, sbVars, serverVars, siteVars, supportVars, contactVars, raceVars>>

\* the answer of the Express application: status, body, and the controller
\* method that ran ("none" when a middleware answered)
NoRequest ==
  [endpoint |-> "none", authorization |-> [kind |-> "none", user |-> Null],
   cookie |-> [kind |-> "none", user |-> Null], body |-> "none"]

\* the last request the application served and its answer: status, body and
\* the middleware or controller method that sent it
NoAnswer == [request |-> NoRequest, status |-> 0, body |-> "", by |-> "none"]

\* a response: the handler that answered, for whom (user or organization id of
\* the request), the status (0: none sent, the request was passed on with
\* next()), the error code or body, and whether Set-Cookie workos_session is sent
NoResponse ==
  [op |-> "none", who |-> Null, status |-> 0, code |-> "", next |-> FALSE,
   cookie |-> FALSE]

Respond(op, who, status, code, next, cookie) ==
  [op |-> op, who |-> who, status |-> status, code |-> code, next |-> next,
   cookie |-> cookie]

\* the deploy workflow's jobs
JobNames ==
  {"setup", "build-and-test", "security-scan", "cdk-diff",
   "deploy-infrastructure", "build-and-push-image", "run-migrations",
   "deploy-application", "deploy-lambda", "verify-deployment"}

NoRun == [event |-> "none", ref |-> "none"]

\* before the component is rendered, and before the workflow is triggered
NavInit ==
  /\ navRevision = 0
  /\ mounted = FALSE
  /\ darkBackground = FALSE
  /\ scrolled = FALSE
  /\ scrollY = 0
  /\ listeners = 0

\* an empty queue, no notification, the worker about to poll
MaxMessages == 2

MessageIds == 1..MaxMessages

WorkerInit ==
  /\ sqs = [m \in MessageIds |-> [state |-> "absent", kind |-> "none", receiveCount |-> 0]]
  /\ notifications = [m \in MessageIds |-> "absent"]
  /\ workerPc = "poll"
  /\ batch = {}
  /\ current = 0

\* no call of sendBatch yet
QueueServiceInit ==
  /\ sbMessages = <<>>
  /\ sbChunks = <<>>
  /\ sbRequests = <<>>
  /\ sbPc = "idle"
  /\ sbFailed = {}

\* the process has loaded its modules and startServer awaits prisma.$connect
\* before subdomainMiddleware served a request
NoSiteRequest ==
  [hostname |-> <<>>, status |-> 0, body |-> "", next |-> FALSE,
   organization |-> {}, siteType |-> "none", site |-> <<>>,
   resolved |-> [type |-> "none", site |-> <<>>, slug |-> <<>>]]

SiteInit == siteReq = NoSiteRequest

\* the requests a client can have in progress at once
MaxRequests == 2
RequestIds == 1..MaxRequests

\* a request slot before its request arrives
NoLogin ==
  [kind |-> "none", user |-> Null, pc |-> "idle", found |-> FALSE,
   active |-> FALSE, fresh |-> FALSE, admitted |-> FALSE, status |-> 0]

RaceInit == reqs = [i \in RequestIds |-> NoLogin]

\* let formData = { name: "", email: "", subject: "", message: "" }
EmptyForm == [name |-> "", email |-> "", subject |-> "", message |-> ""]

\* the support page before it is opened; openIndex = $state(null)
NoIndex == -1

FaqInit ==
  /\ supportMounted = FALSE
  /\ openIndex = NoIndex
  /\ visibleAnswers = {}

\* before the contact page is opened
ContactInit ==
  /\ contactMounted = FALSE
  /\ formData = EmptyForm
  /\ submitted = FALSE
  /\ shown = "none"
  /\ pendingTimers = 0
  /\ staleTimers = 0

\* before enterOrganization served a request
NoCaller == [id |-> Null, platformRole |-> Null]
NoEnter == [state |-> "idle", caller |-> NoCaller, organizationId |-> Null]
NoEnterResponse ==
  [caller |-> NoCaller, organizationId |-> Null, status |-> 0, body |-> ""]

SupportInit ==
  /\ auditLogs = {}
  /\ entered = {}
  /\ enterPc = NoEnter
  /\ enterRes = NoEnterResponse

ServerInit ==
  /\ server = "starting"
  /\ connections = 0
  /\ prismaConn = "connecting"
  /\ signal = <<>>
  /\ dbHandler = "idle"
  /\ closeCallback = "idle"
  /\ timer = "unset"
  /\ exited = FALSE
  /\ exitCode = 0

CiInit ==
  /\ ciRun = NoRun
  /\ ciJobs = [j \in JobNames |-> "queued"]
  /\ approval = "none"

Init ==
  /\ wUsers = [u \in WorkosUserIds |-> [state |-> "absent", profile |-> NoProfile]]
  /\ wOrgs = [o \in WorkosOrgIds |-> [state |-> "absent", name |-> <<>>]]
  /\ wMembers = {}
  /\ inflight = {}
  /\ sent = 0
  /\ users = {}
  /\ organizations = {}
  /\ memberships = {}
  /\ softDeleted = {}
  /\ orgSoftDeleted = {}
  /\ lost = {}
  /\ resp = NoResponse
  /\ rateCount = 0
  /\ http = NoAnswer
  /\ NavInit
  /\ CiInit
  /\ WorkerInit
  /\ QueueServiceInit
  /\ ServerInit
  /\ FaqInit
  /\ RaceInit
  /\ ContactInit
  /\ SupportInit
  /\ SiteInit

\* ------------------------------------------------------------------------
\* The database (Prisma over PostgreSQL): rows and unique constraints
\* ------------------------------------------------------------------------
\* model User: workosId @unique, email @unique, isActive @default(true).
\* The uuid primary key of a row is represented by its workosId.
UserRow(workosId, email, firstName, lastName, lastLoginAt) ==
  [workosId |-> workosId, email |-> email, firstName |-> firstName,
   lastName |-> lastName, isActive |-> TRUE, lastLoginAt |-> lastLoginAt]

\* model Organization: workosOrgId @unique, slug @unique, isActive @default(true)
OrgRow(workosOrgId, name, slug) ==
  [workosOrgId |-> workosOrgId, name |-> name, slug |-> slug, isActive |-> TRUE]

\* model OrganizationMembership: @@unique([userId, organizationId])
MembershipRow(userId, organizationId, role) ==
  [userId |-> userId, organizationId |-> organizationId, role |-> role,
   title |-> Null]

\* prisma.user.findUnique({ where: { workosId } }): the set of matching rows
userFindUnique(us, workosId) == {r \in us : r.workosId = workosId}

\* prisma.user.create: throws (ok = FALSE) on a unique-constraint violation
userCreate(us, row) ==
  IF \E r \in us : r.workosId = row.workosId \/ r.email = row.email
    THEN [ok |-> FALSE, users |-> us]
    ELSE [ok |-> TRUE, users |-> us \cup {row}]

\* prisma.user.update({ where: { workosId }, data }): throws when no row
\* matches or when the new email belongs to another row
userUpdate(us, workosId, new) ==
  IF userFindUnique(us, workosId) = {} THEN [ok |-> FALSE, users |-> us]
  ELSE LET old == CHOOSE r \in us : r.workosId = workosId
       IN IF \E r \in us \ {old} : r.email = new.email
            THEN [ok |-> FALSE, users |-> us]
            ELSE [ok |-> TRUE, users |-> (us \ {old}) \cup {new}]

organizationFindUnique(os, workosOrgId) == {r \in os : r.workosOrgId = workosOrgId}

organizationCreate(os, row) ==
  IF \E r \in os : r.workosOrgId = row.workosOrgId \/ r.slug = row.slug
    THEN [ok |-> FALSE, organizations |-> os]
    ELSE [ok |-> TRUE, organizations |-> os \cup {row}]

organizationUpdate(os, workosOrgId, new) ==
  IF organizationFindUnique(os, workosOrgId) = {}
    THEN [ok |-> FALSE, organizations |-> os]
    ELSE LET old == CHOOSE r \in os : r.workosOrgId = workosOrgId
         IN [ok |-> TRUE, organizations |-> (os \ {old}) \cup {new}]

membershipFindUnique(ms, userId, organizationId) ==
  {r \in ms : r.userId = userId /\ r.organizationId = organizationId}

membershipCreate(ms, row) ==
  IF membershipFindUnique(ms, row.userId, row.organizationId) # {}
    THEN [ok |-> FALSE, memberships |-> ms]
    ELSE [ok |-> TRUE, memberships |-> ms \cup {row}]

membershipDelete(ms, userId, organizationId) ==
  IF membershipFindUnique(ms, userId, organizationId) = {}
    THEN [ok |-> FALSE, memberships |-> ms]
    ELSE [ok |-> TRUE,
          memberships |-> ms \ membershipFindUnique(ms, userId, organizationId)]

\* organizationMembership.upsert({ where, create, update: {} })
membershipUpsert(ms, row) ==
  IF membershipFindUnique(ms, row.userId, row.organizationId) # {}
    THEN ms
    ELSE ms \cup {row}


\* ------------------------------------------------------------------------
\* WorkOS (the identity provider): directory changes emit webhook events
\* ------------------------------------------------------------------------
Db == [users |-> users, organizations |-> organizations, memberships |-> memberships]

\* the events WorkOS has emitted and not yet delivered when the organization
\* mirror is first observed (see InitLoggedIn)
InitLoggedInEvents ==
  { [id |-> 1, event |-> "organization.created",
     data |-> [id |-> "org_01", name |-> <<"T", "1">>], left |-> MaxCopies],
    [id |-> 2, event |-> "organization_membership.created",
     data |-> [user_id |-> "user_01", organization_id |-> "org_01", role |-> "Admin"],
     left |-> MaxCopies] }

\* an event WorkOS delivers at least once and at most MaxCopies times
Emit(event, data, bound) ==
  /\ sent < bound
  /\ sent' = sent + 1
  /\ inflight' = inflight \cup
       {[id |-> sent + 1, event |-> event, data |-> data, left |-> MaxCopies]}

UserData(u, p) ==
  [id |-> u, email |-> p.email, first_name |-> p.firstName, last_name |-> p.lastName]

EmailFree(u, p) ==
  \A v \in WorkosUserIds \ {u} :
    wUsers[v].state = "active" => wUsers[v].profile.email # p.email

WorkOSUserCreated(u, p) ==
  /\ wUsers[u].state = "absent"
  /\ EmailFree(u, p)
  /\ wUsers' = [wUsers EXCEPT ![u] = [state |-> "active", profile |-> p]]
  /\ Emit("user.created", UserData(u, p), MaxEvents)
  /\ UNCHANGED <<wOrgs, wMembers, users, organizations, memberships,
                 softDeleted, orgSoftDeleted, lost, resp, exceptSync>>

WorkOSUserUpdated(u, p) ==
  /\ wUsers[u].state = "active"
  /\ wUsers[u].profile # p
  /\ EmailFree(u, p)
  /\ wUsers' = [wUsers EXCEPT ![u].profile = p]
  /\ Emit("user.updated", UserData(u, p), MaxEvents)
  /\ UNCHANGED <<wOrgs, wMembers, users, organizations, memberships,
                 softDeleted, orgSoftDeleted, lost, resp, exceptSync>>

WorkOSUserDeleted(u) ==
  /\ wUsers[u].state = "active"
  /\ wUsers' = [wUsers EXCEPT ![u].state = "deleted"]
  /\ Emit("user.deleted", UserData(u, wUsers[u].profile), MaxEvents)
  /\ UNCHANGED <<wOrgs, wMembers, users, organizations, memberships,
                 softDeleted, orgSoftDeleted, lost, resp, exceptSync>>

OrgData(o, name) == [id |-> o, name |-> name]

WorkOSOrganizationCreated(o, name) ==
  /\ wOrgs[o].state = "absent"
  /\ wOrgs' = [wOrgs EXCEPT ![o] = [state |-> "active", name |-> name]]
  /\ Emit("organization.created", OrgData(o, name),
          Cardinality(InitLoggedInEvents) + MaxOrgEvents)
  /\ UNCHANGED <<wUsers, wMembers, users, organizations, memberships,
                 softDeleted, orgSoftDeleted, lost, resp, exceptSync>>

WorkOSOrganizationUpdated(o, name) ==
  /\ wOrgs[o].state = "active"
  /\ wOrgs[o].name # name
  /\ wOrgs' = [wOrgs EXCEPT ![o].name = name]
  /\ Emit("organization.updated", OrgData(o, name),
          Cardinality(InitLoggedInEvents) + MaxOrgEvents)
  /\ UNCHANGED <<wUsers, wMembers, users, organizations, memberships,
                 softDeleted, orgSoftDeleted, lost, resp, exceptSync>>

WorkOSOrganizationDeleted(o) ==
  /\ wOrgs[o].state = "active"
  /\ wOrgs' = [wOrgs EXCEPT ![o].state = "deleted"]
  /\ Emit("organization.deleted", OrgData(o, wOrgs[o].name),
          Cardinality(InitLoggedInEvents) + MaxOrgEvents)
  /\ UNCHANGED <<wUsers, wMembers, users, organizations, memberships,
                 softDeleted, orgSoftDeleted, lost, resp, exceptSync>>

MembershipData(u, o, role) ==
  [user_id |-> u, organization_id |-> o, role |-> role]

WorkOSMembershipCreated(u, o, role) ==
  /\ wUsers[u].state = "active"
  /\ wOrgs[o].state = "active"
  /\ <<u, o>> \notin wMembers
  /\ wMembers' = wMembers \cup {<<u, o>>}
  /\ Emit("organization_membership.created", MembershipData(u, o, role),
          Cardinality(InitLoggedInEvents) + MaxOrgEvents)
  /\ UNCHANGED <<wUsers, wOrgs, users, organizations, memberships,
                 softDeleted, orgSoftDeleted, lost, resp, exceptSync>>

WorkOSMembershipDeleted(u, o) ==
  /\ <<u, o>> \in wMembers
  /\ wMembers' = wMembers \ {<<u, o>>}
  /\ Emit("organization_membership.deleted", MembershipData(u, o, Null),
          Cardinality(InitLoggedInEvents) + MaxOrgEvents)
  /\ UNCHANGED <<wUsers, wOrgs, users, organizations, memberships,
                 softDeleted, orgSoftDeleted, lost, resp, exceptSync>>

\* ------------------------------------------------------------------------
\* WebhookController
\* ------------------------------------------------------------------------
\* each handler maps the tables to [ok, db]; ok = FALSE is a thrown error
Ok(db) == [ok |-> TRUE, db |-> db]
Thrown(db) == [ok |-> FALSE, db |-> db]

\* handleUserCreated whose upsert writes the event's profile into an existing
\* row (update: { email, firstName, lastName })
handleUserCreated_overwritesProfile(db, data) ==
  LET found == userFindUnique(db.users, data.id)
      old == CHOOSE x \in found : TRUE
      c == userCreate(db.users,
             UserRow(data.id, data.email, OrEmpty(data.first_name),
                     OrEmpty(data.last_name), 0))
      u == userUpdate(db.users, data.id,
             [old EXCEPT !.email = data.email,
                         !.firstName = OrEmpty(data.first_name),
                         !.lastName = OrEmpty(data.last_name)])
  IN IF found # {}
       THEN IF u.ok THEN Ok([db EXCEPT !.users = u.users]) ELSE Thrown(db)
       ELSE IF c.ok THEN Ok([db EXCEPT !.users = c.users]) ELSE Thrown(db)

\* handleUserCreated whose upsert restores the column defaults of an
\* existing row (update: { isActive: true })
handleUserCreated_reactivates(db, data) ==
  LET found == userFindUnique(db.users, data.id)
      old == CHOOSE x \in found : TRUE
      c == userCreate(db.users,
             UserRow(data.id, data.email, OrEmpty(data.first_name),
                     OrEmpty(data.last_name), 0))
  IN IF found # {}
       THEN Ok([db EXCEPT !.users = (db.users \ {old}) \cup {[old EXCEPT !.isActive = TRUE]}])
       ELSE IF c.ok THEN Ok([db EXCEPT !.users = c.users]) ELSE Thrown(db)

handleUserCreated(db, data) ==
  IF userFindUnique(db.users, data.id) # {}
    THEN Ok(db)                                   \* upsert, update: {}
    ELSE LET r == userCreate(db.users,
                    UserRow(data.id, data.email, OrEmpty(data.first_name),
                            OrEmpty(data.last_name), 0))
         IN IF r.ok THEN Ok([db EXCEPT !.users = r.users]) ELSE Thrown(db)

handleUserUpdated(db, data) ==
  LET found == userFindUnique(db.users, data.id)
      old == CHOOSE x \in found : TRUE
      r == userUpdate(db.users, data.id,
             [old EXCEPT !.email = data.email,
                         !.firstName = OrEmpty(data.first_name),
                         !.lastName = OrEmpty(data.last_name)])
  IN IF found = {} THEN Thrown(db)
     ELSE IF r.ok THEN Ok([db EXCEPT !.users = r.users]) ELSE Thrown(db)

handleUserDeleted(db, data) ==
  LET found == userFindUnique(db.users, data.id)
      old == CHOOSE x \in found : TRUE
      r == userUpdate(db.users, data.id, [old EXCEPT !.isActive = FALSE])
  IN IF found = {} THEN Thrown(db)
     ELSE IF r.ok THEN Ok([db EXCEPT !.users = r.users]) ELSE Thrown(db)

handleOrganizationCreated(db, data) ==
  LET r == organizationCreate(db.organizations,
             OrgRow(data.id, data.name, SlugOf[data.name]))
  IN IF r.ok THEN Ok([db EXCEPT !.organizations = r.organizations]) ELSE Thrown(db)

handleOrganizationUpdated(db, data) ==
  LET found == organizationFindUnique(db.organizations, data.id)
      old == CHOOSE x \in found : TRUE
      r == organizationUpdate(db.organizations, data.id, [old EXCEPT !.name = data.name])
  IN IF found = {} THEN Thrown(db)
     ELSE Ok([db EXCEPT !.organizations = r.organizations])

handleOrganizationDeleted(db, data) ==
  LET found == organizationFindUnique(db.organizations, data.id)
      old == CHOOSE x \in found : TRUE
      r == organizationUpdate(db.organizations, data.id, [old EXCEPT !.isActive = FALSE])
  IN IF found = {} THEN Thrown(db)
     ELSE Ok([db EXCEPT !.organizations = r.organizations])

handleMembershipCreated(db, data) ==
  LET user == userFindUnique(db.users, data.user_id)
      org == organizationFindUnique(db.organizations, data.organization_id)
      r == membershipCreate(db.memberships,
             MembershipRow(data.user_id, data.organization_id, mapWorkOSRole(data.role)))
  IN IF user # {} /\ org # {}
       THEN IF r.ok THEN Ok([db EXCEPT !.memberships = r.memberships]) ELSE Thrown(db)
       ELSE Ok(db)

handleMembershipDeleted(db, data) ==
  LET user == userFindUnique(db.users, data.user_id)
      org == organizationFindUnique(db.organizations, data.organization_id)
      r == membershipDelete(db.memberships, data.user_id, data.organization_id)
  IN IF user # {} /\ org # {}
       THEN IF r.ok THEN Ok([db EXCEPT !.memberships = r.memberships]) ELSE Thrown(db)
       ELSE Ok(db)

\* handleWorkOS without constructEvent's verification of the signature
handleWorkOS_unverified(db, e, signatureOk) ==
  IF e.event = "user.created" THEN handleUserCreated(db, e.data)
  ELSE IF e.event = "user.updated" THEN handleUserUpdated(db, e.data)
  ELSE IF e.event = "user.deleted" THEN handleUserDeleted(db, e.data)
  ELSE Ok(db)

\* handleWorkOS: constructEvent throws on a bad signature; the switch
\* dispatches on webhook.event; any throw is answered 400
handleWorkOS(db, e, signatureOk) ==
  IF ~signatureOk THEN Thrown(db)
  ELSE IF e.event = "user.created" THEN handleUserCreated(db, e.data)
  ELSE IF e.event = "user.updated" THEN handleUserUpdated(db, e.data)
  ELSE IF e.event = "user.deleted" THEN handleUserDeleted(db, e.data)
  ELSE IF e.event = "organization.created" THEN handleOrganizationCreated(db, e.data)
  ELSE IF e.event = "organization.updated" THEN handleOrganizationUpdated(db, e.data)
  ELSE IF e.event = "organization.deleted" THEN handleOrganizationDeleted(db, e.data)
  ELSE IF e.event = "organization_membership.created" THEN handleMembershipCreated(db, e.data)
  ELSE IF e.event = "organization_membership.deleted" THEN handleMembershipDeleted(db, e.data)
  ELSE Ok(db)

\* the user or organization an event is about
Subject(e) ==
  IF e.event \in {"organization_membership.created", "organization_membership.deleted"}
    THEN e.data.user_id
    ELSE e.data.id

\* POST /webhooks/workos: one delivery of event e; `last` when WorkOS will
\* not deliver it again (it got its answer, or it gives up retrying)
DeliverWebhook(e, signatureOk, last) ==
  LET r == handleWorkOS(Db, e, signatureOk)
  IN /\ e \in inflight
     /\ inflight' = IF ~signatureOk THEN inflight   \* not a WorkOS delivery
                    ELSE IF e.left = 1 \/ last THEN inflight \ {e}
                    ELSE (inflight \ {e}) \cup {[e EXCEPT !.left = e.left - 1]}
     /\ users' = r.db.users
     /\ organizations' = r.db.organizations
     /\ memberships' = r.db.memberships
     /\ softDeleted' = IF r.ok /\ signatureOk /\ e.event = "user.deleted"
                         THEN softDeleted \cup {e.data.id} ELSE softDeleted
     /\ orgSoftDeleted' = IF r.ok /\ signatureOk /\ e.event = "organization.deleted"
                            THEN orgSoftDeleted \cup {e.data.id} ELSE orgSoftDeleted
     /\ lost' = IF signatureOk /\ ~r.ok /\ (e.left = 1 \/ last)
                  THEN lost \cup {Subject(e)} ELSE lost
     /\ resp' = IF r.ok THEN Respond("webhook", Subject(e), 200, "received", FALSE, FALSE)
                ELSE Respond("webhook", Subject(e), 400, "Webhook processing failed",
                             FALSE, FALSE)
     /\ UNCHANGED <<wUsers, wOrgs, wMembers, sent, exceptSync>>


\* ------------------------------------------------------------------------
\* workosAuthMiddleware
\* ------------------------------------------------------------------------
\* the workos_session cookie of a request
Cookies ==
  {[kind |-> "none", user |-> Null], [kind |-> "invalid", user |-> Null]}
    \cup {[kind |-> "session", user |-> u] : u \in WorkosUserIds}

\* authenticateWithSessionCookie: a sealed session WorkOS issued verifies
\* (also after the user was deleted, until the session expires)
SessionVerifies(cookie) ==
  cookie.kind = "session" /\ wUsers[cookie.user].state # "absent"

\* outcome of the middleware on the users table us at time t:
\* [users, status, code, next]
\* the middleware without the isActive check
authOutcome_skipsActiveCheck(us, cookie, workosUser, verified, t) ==
  LET found == userFindUnique(us, cookie.user)
      old == CHOOSE x \in found : TRUE
      created == userCreate(us, UserRow(cookie.user, workosUser.email,
                                OrEmpty(workosUser.firstName),
                                OrEmpty(workosUser.lastName), t))
      updated == userUpdate(us, cookie.user, [old EXCEPT !.lastLoginAt = t])
  IN IF cookie.kind = "none"
       THEN [users |-> us, status |-> 401, code |-> "UNAUTHORIZED", next |-> FALSE]
     ELSE IF ~verified
       THEN [users |-> us, status |-> 401, code |-> "INVALID_SESSION", next |-> FALSE]
     ELSE IF found = {}
       THEN IF created.ok
              THEN [users |-> created.users, status |-> 0, code |-> "", next |-> TRUE]
              ELSE [users |-> us, status |-> 401, code |-> "INVALID_SESSION", next |-> FALSE]
     ELSE [users |-> updated.users, status |-> 0, code |-> "", next |-> TRUE]

authOutcome(us, cookie, workosUser, verified, t) ==
  LET found == userFindUnique(us, cookie.user)
      old == CHOOSE x \in found : TRUE
      created == userCreate(us, UserRow(cookie.user, workosUser.email,
                                OrEmpty(workosUser.firstName),
                                OrEmpty(workosUser.lastName), t))
      updated == userUpdate(us, cookie.user, [old EXCEPT !.lastLoginAt = t])
  IN IF cookie.kind = "none"
       THEN [users |-> us, status |-> 401, code |-> "UNAUTHORIZED", next |-> FALSE]
     ELSE IF ~verified
       THEN [users |-> us, status |-> 401, code |-> "INVALID_SESSION", next |-> FALSE]
     ELSE IF found = {}
       THEN IF created.ok
              THEN [users |-> created.users, status |-> 0, code |-> "", next |-> TRUE]
              ELSE [users |-> us, status |-> 401, code |-> "INVALID_SESSION", next |-> FALSE]
     ELSE IF ~old.isActive
       THEN [users |-> updated.users, status |-> 401, code |-> "UNAUTHORIZED", next |-> FALSE]
     ELSE [users |-> updated.users, status |-> 0, code |-> "", next |-> TRUE]

\* the instants new Date() can return (0 stands for a null lastLoginAt)
Times == 1..MaxClock

workosAuthMiddleware(cookie, t) ==
  LET verified == SessionVerifies(cookie)
      workosUser == IF verified THEN wUsers[cookie.user].profile ELSE NoProfile
      r == authOutcome(users, cookie, workosUser, verified, t)
  IN /\ users' = r.users
     /\ resp' = Respond("auth", cookie.user, r.status, r.code, r.next, FALSE)
     /\ UNCHANGED <<wUsers, wOrgs, wMembers, inflight, sent, organizations,
                    memberships, softDeleted, orgSoftDeleted, lost, exceptSync>>

\* ------------------------------------------------------------------------
\* AuthController
\* ------------------------------------------------------------------------
\* syncOrganization: every error is caught and logged
syncOrganization(db, workosOrgId, userId) ==
  LET org == organizationFindUnique(db.organizations, workosOrgId)
      workosOrg == wOrgs[workosOrgId]
      created == organizationCreate(db.organizations,
                   OrgRow(workosOrgId, workosOrg.name, SlugOf[workosOrg.name]))
      orgs == IF org = {} THEN created.organizations ELSE db.organizations
  IN IF workosOrg.state # "active" THEN db          \* getOrganization throws
     ELSE IF org = {} /\ ~created.ok THEN db        \* organization.create throws
     ELSE [db EXCEPT !.organizations = orgs,
                     !.memberships = membershipUpsert(db.memberships,
                                       MembershipRow(userId, workosOrgId, "MEMBER"))]

\* the query of GET /api/auth/callback
Codes ==
  {[kind |-> "none", user |-> Null, organizationId |-> Null],
   [kind |-> "invalid", user |-> Null, organizationId |-> Null]}
    \cup {[kind |-> "valid", user |-> u, organizationId |-> o] :
            u \in WorkosUserIds, o \in WorkosOrgIds \cup {Null}}

States == {"absent", "json", "unparsable"}

\* authenticateWithCode succeeds for a code WorkOS issued to an active user,
\* for an organization the user is a member of
CodeExchanges(code) ==
  /\ code.kind = "valid"
  /\ wUsers[code.user].state = "active"
  /\ code.organizationId # Null => <<code.user, code.organizationId>> \in wMembers

\* [db, status, cookie]
callbackOutcome(db, code, state, exchanged, workosUser, t) ==
  LET found == userFindUnique(db.users, code.user)
      old == CHOOSE x \in found : TRUE
      created == userCreate(db.users, UserRow(code.user, workosUser.email,
                                OrEmpty(workosUser.firstName),
                                OrEmpty(workosUser.lastName), t))
      updated == userUpdate(db.users, code.user, [old EXCEPT !.lastLoginAt = t])
      db1 == [db EXCEPT !.users = IF found = {} THEN created.users ELSE updated.users]
      db2 == IF code.organizationId # Null
               THEN syncOrganization(db1, code.organizationId, code.user)
               ELSE db1
  IN IF code.kind = "none" THEN [db |-> db, status |-> 400, cookie |-> FALSE]
     ELSE IF ~exchanged THEN [db |-> db, status |-> 500, cookie |-> FALSE]
     ELSE IF found = {} /\ ~created.ok THEN [db |-> db, status |-> 500, cookie |-> FALSE]
     ELSE IF state = "unparsable" THEN [db |-> db2, status |-> 500, cookie |-> TRUE]
     ELSE [db |-> db2, status |-> 302, cookie |-> TRUE]

callback(code, state, t) ==
  LET exchanged == CodeExchanges(code)
      workosUser == IF exchanged THEN wUsers[code.user].profile ELSE NoProfile
      r == callbackOutcome(Db, code, state, exchanged, workosUser, t)
  IN /\ users' = r.db.users
     /\ organizations' = r.db.organizations
     /\ memberships' = r.db.memberships
     /\ resp' = Respond("callback", code.user, r.status, "", FALSE, r.cookie)
     /\ UNCHANGED <<wUsers, wOrgs, wMembers, inflight, sent, softDeleted, orgSoftDeleted, lost,
                    exceptSync>>

\* ------------------------------------------------------------------------
\* Specification of the WorkOS synchronisation
\* ------------------------------------------------------------------------
Next ==
  \/ \E u \in WorkosUserIds, p \in Profiles : WorkOSUserCreated(u, p)
  \/ \E u \in WorkosUserIds, p \in Profiles : WorkOSUserUpdated(u, p)
  \/ \E u \in WorkosUserIds : WorkOSUserDeleted(u)
  \/ \E e \in inflight, ok \in BOOLEAN, last \in BOOLEAN : DeliverWebhook(e, ok, last)
  \/ \E c \in Cookies, t \in Times : workosAuthMiddleware(c, t)
  \/ \E c \in Codes, s \in States, t \in Times :
       c.organizationId = Null /\ callback(c, s, t)

Spec == Init /\ [][Next]_vars

\* ------------------------------------------------------------------------
\* Specification of the organization mirror
\* ------------------------------------------------------------------------
\* The state right after the first login of user_01 into org_01 through the
\* callback: WorkOS knows the user, the organization and the membership, the
\* callback and syncOrganization created the three local rows, and WorkOS
\* still has to deliver organization.created and
\* organization_membership.created.
SignupProfile == [email |-> "ann@x", firstName |-> "Ann", lastName |-> Null]
SignupOrgName == <<"T", "1">>

InitLoggedIn ==
  /\ wUsers = [u \in WorkosUserIds |->
                 IF u = "user_01" THEN [state |-> "active", profile |-> SignupProfile]
                 ELSE [state |-> "absent", profile |-> NoProfile]]
  /\ wOrgs = [o \in WorkosOrgIds |->
                 IF o = "org_01" THEN [state |-> "active", name |-> SignupOrgName]
                 ELSE [state |-> "absent", name |-> <<>>]]
  /\ wMembers = {<<"user_01", "org_01">>}
  /\ inflight = InitLoggedInEvents
  /\ sent = Cardinality(InitLoggedInEvents)
  /\ users = {UserRow("user_01", SignupProfile.email, OrEmpty(SignupProfile.firstName),
                      OrEmpty(SignupProfile.lastName), 1)}
  /\ organizations = {OrgRow("org_01", SignupOrgName, SlugOf[SignupOrgName])}
  /\ memberships = {MembershipRow("user_01", "org_01", "MEMBER")}
  /\ softDeleted = {}
  /\ orgSoftDeleted = {}
  /\ lost = {}
  /\ resp = NoResponse
  /\ rateCount = 0
  /\ http = NoAnswer
  /\ NavInit
  /\ CiInit
  /\ WorkerInit
  /\ QueueServiceInit
  /\ ServerInit
  /\ FaqInit
  /\ RaceInit
  /\ ContactInit
  /\ SupportInit
  /\ SiteInit

NextOrg ==
  \/ \E o \in WorkosOrgIds, n \in OrgNames : WorkOSOrganizationCreated(o, n)
  \/ \E o \in WorkosOrgIds, n \in OrgNames : WorkOSOrganizationUpdated(o, n)
  \/ \E o \in WorkosOrgIds : WorkOSOrganizationDeleted(o)
  \/ \E u \in WorkosUserIds, o \in WorkosOrgIds, r \in WorkosRoles :
       WorkOSMembershipCreated(u, o, r)
  \/ \E u \in WorkosUserIds, o \in WorkosOrgIds : WorkOSMembershipDeleted(u, o)
  \/ \E e \in inflight, last \in BOOLEAN : DeliverWebhook(e, TRUE, last)
  \/ \E c \in Codes, t \in Times : c.kind = "valid" /\ callback(c, "json", t)

SpecOrg == InitLoggedIn /\ [][NextOrg]_vars


\* ------------------------------------------------------------------------
\* Properties of the WorkOS synchronisation
\* ------------------------------------------------------------------------
UserEventsPending(u) ==
  \E e \in inflight : e.event \in {"user.created", "user.updated"} /\ e.data.id = u

MirrorsWorkOS(r, u) ==
  /\ r.workosId = u
  /\ r.email = wUsers[u].profile.email
  /\ r.firstName = OrEmpty(wUsers[u].profile.firstName)
  /\ r.lastName = OrEmpty(wUsers[u].profile.lastName)

\* C1: once every user.created and user.updated event sent for a user has
\* been delivered and answered {received: true} (none is pending, none was
\* given up after a 400), the local row of the user carries the email,
\* firstName and lastName of the most recent WorkOS event, whatever the order
\* of delivery was.
C1_RowEqualsLatestEvent ==
  \A u \in WorkosUserIds :
    (wUsers[u].state # "absent" /\ ~UserEventsPending(u) /\ u \notin lost)
      => \E r \in users : MirrorsWorkOS(r, u)

\* C2: handling organization.created or organization_membership.created for
\* an entity that already has a local row answers {received: true} and leaves
\* exactly one row for it.
C2_CreateEventsAreUpserts ==
  [][\A e \in inflight, last \in BOOLEAN :
       DeliverWebhook(e, TRUE, last) =>
         /\ (e.event = "organization.created"
               /\ organizationFindUnique(organizations, e.data.id) # {})
              => (resp'.status = 200
                    /\ Cardinality(organizationFindUnique(organizations', e.data.id)) = 1)
         /\ (e.event = "organization_membership.created"
               /\ membershipFindUnique(memberships, e.data.user_id,
                                       e.data.organization_id) # {})
              => (resp'.status = 200
                    /\ Cardinality(membershipFindUnique(memberships', e.data.user_id,
                                     e.data.organization_id)) = 1)]_vars

\* C3: workosAuthMiddleware calls next() only for a request whose
\* workos_session cookie WorkOS verified and whose local user is active;
\* every other request is answered 401, with code UNAUTHORIZED when the
\* cookie is missing or the account is deactivated and INVALID_SESSION
\* otherwise, and next() is not called.
C3_MiddlewareAdmitsOnlyActiveSessions ==
  [][\A c \in Cookies, t \in Times :
       workosAuthMiddleware(c, t) =>
         LET deactivated == SessionVerifies(c)
                              /\ \E r \in users : r.workosId = c.user /\ ~r.isActive
         IN /\ resp'.next =>
                 /\ c.kind = "session"
                 /\ SessionVerifies(c)
                 /\ \E r \in users' : r.workosId = c.user /\ r.isActive
            /\ ~resp'.next =>
                 /\ resp'.status = 401
                 /\ resp'.code = IF c.kind = "none" \/ deactivated
                                   THEN "UNAUTHORIZED" ELSE "INVALID_SESSION"]_vars

\* a deactivated account was turned away by the middleware
C3_Witness ==
  /\ resp.op = "auth" /\ resp.status = 401 /\ resp.code = "UNAUTHORIZED"
  /\ \E r \in users : r.workosId = resp.who /\ ~r.isActive

RATE_LIMIT_MAX_REQUESTS == 100

Endpoints ==
  {"GET /health", "GET /api/health", "GET /api/auth/me", "GET /api/users",
   "DELETE /api/users/:id", "POST /api/notifications/bulk",
   "GET /api/notifications/:id/status", "GET /nowhere"}

UserEndpoints == {"GET /api/users", "DELETE /api/users/:id"}
NotificationEndpoints ==
  {"POST /api/notifications/bulk", "GET /api/notifications/:id/status"}

\* the Authorization header of a request
Tokens ==
  {[kind |-> "none", user |-> Null], [kind |-> "invalid", user |-> Null]}
    \cup {[kind |-> "bearer", user |-> u] : u \in WorkosUserIds}

\* the JSON body of a request: none, one that parses and passes the
\* route's schema ("valid"), one that parses and fails it ("invalid"), and
\* one that does not parse ("malformed"); bodies are sent to the POST route
Bodies == {"none", "valid", "invalid", "malformed"}

Requests ==
  {r \in [endpoint : Endpoints, authorization : Tokens, cookie : Cookies,
          body : Bodies] :
     (r.endpoint = "POST /api/notifications/bulk") = (r.body # "none")}

Answer(req, status, body, by) ==
  [request |-> req, status |-> status, body |-> body, by |-> by]

Controllers ==
  {"AuthController.getCurrentUser", "UserController.getAll",
   "UserController.delete", "NotificationController.createBulk",
   "NotificationController.getStatus", "HealthController.basic"}

\* rateLimitMiddleware (express-rate-limit): the request is counted, and it
\* is passed on unless more than max requests were counted in the window
rateLimitMiddleware(count) ==
  [count |-> IF count > RATE_LIMIT_MAX_REQUESTS THEN count ELSE count + 1,
   next |-> count + 1 <= RATE_LIMIT_MAX_REQUESTS]

\* the authMiddleware that always calls next()
authMiddleware_alwaysNext(us, authorization) ==
  [next |-> TRUE,
   user |-> IF authorization.kind = "bearer"
                 /\ userFindUnique(us, authorization.user) # {}
              THEN authorization.user ELSE Null]

\* authMiddleware of the routers: jwt.verify throws on a missing or invalid
\* token; req.user is the row of decoded.userId (null when there is none)
authMiddleware(us, authorization) ==
  IF authorization.kind # "bearer"
    THEN [next |-> FALSE, user |-> Null]
    ELSE [next |-> TRUE,
          user |-> IF userFindUnique(us, authorization.user) # {}
                     THEN authorization.user ELSE Null]

\* AuthController.getCurrentUser
getCurrentUser(req, reqUser) ==
  IF reqUser = Null
    THEN Answer(req, 401, "Not authenticated", "AuthController.getCurrentUser")
    ELSE Answer(req, 200, reqUser, "AuthController.getCurrentUser")

\* routes/auth.routes.ts: no middleware in front of the controller, so
\* req.user is what the application set before
authRoutes(req, reqUser) == getCurrentUser(req, reqUser)

\* routes/users.routes.ts: router.use(authMiddleware) first
userRoutes(us, req) ==
  LET a == authMiddleware(us, req.authorization)
  IN IF ~a.next THEN Answer(req, 401, "Unauthorized", "authMiddleware")
     ELSE IF req.endpoint = "GET /api/users"
       THEN Answer(req, 200, "users", "UserController.getAll")
     ELSE Answer(req, 204, "", "UserController.delete")

\* routes/notifications.routes.ts: router.use(authMiddleware) first, then
\* validate(schema) on the POST routes
notificationRoutes(us, req) ==
  LET a == authMiddleware(us, req.authorization)
  IN IF ~a.next THEN Answer(req, 401, "Unauthorized", "authMiddleware")
     ELSE IF req.endpoint = "POST /api/notifications/bulk"
       THEN IF req.body = "valid"
              THEN Answer(req, 202, "queued", "NotificationController.createBulk")
              ELSE Answer(req, 400, "Validation failed", "validate")
     ELSE Answer(req, 200, "status", "NotificationController.getStatus")

\* routes/index.ts
routes(us, req) ==
  IF req.endpoint = "GET /api/health"
    THEN Answer(req, 200, "healthy", "HealthController.basic")
  ELSE IF req.endpoint \in UserEndpoints THEN userRoutes(us, req)
  ELSE notificationRoutes(us, req)

\* errorMiddleware on an error that is neither an AppError nor a Prisma error
errorMiddleware(req, by) == Answer(req, 500, "INTERNAL_ERROR", by)

\* createApp: the middleware and routes in the order they are mounted;
\* express.json passes a body that does not parse to the error handler, and
\* no middleware in front of the routes sets req.user
createApp(us, req, limiter) ==
  IF req.body = "malformed" THEN errorMiddleware(req, "express.json")
  ELSE IF ~limiter.next
    THEN Answer(req, 429, "Too many requests", "rateLimitMiddleware")
  ELSE IF req.endpoint = "GET /api/auth/me" THEN authRoutes(req, Null)
  ELSE IF req.endpoint \in {"GET /api/health"} \cup UserEndpoints \cup NotificationEndpoints
    THEN routes(us, req)
  ELSE IF req.endpoint = "GET /health"
    THEN Answer(req, 200, "healthy", "health")
  ELSE Answer(req, 404, "Route not found", "notFound")

\* one request served by the application
AppRequest(req) ==
  LET limiter == IF req.body = "malformed"
                   THEN [count |-> rateCount, next |-> FALSE]
                   ELSE rateLimitMiddleware(rateCount)
  IN /\ rateCount' = limiter.count
     /\ http' = createApp(users, req, limiter)
     /\ UNCHANGED <<exceptApp>>

\* the rate-limit window (RATE_LIMIT_WINDOW_MS) elapses
WindowElapsed ==
  /\ rateCount > 0
  /\ rateCount' = 0
  /\ UNCHANGED <<http, exceptApp>>

NextApp ==
  \/ \E req \in Requests : AppRequest(req)
  \/ WindowElapsed

SpecApp == InitLoggedIn /\ [][NextApp]_vars

\* ------------------------------------------------------------------------
\* Properties of the Express application
\* ------------------------------------------------------------------------
Unauthenticated(req) == req.authorization.kind # "bearer"

Protected(req) == req.endpoint \in UserEndpoints \cup NotificationEndpoints

C6_HealthAlwaysHealthy ==
  http.request.endpoint = "GET /health" =>
    (http.status = 200 /\ http.body = "healthy")

ValidSessionOfActiveUser(cookie) ==
  /\ SessionVerifies(cookie)
  /\ \E r \in users : r.workosId = cookie.user /\ r.isActive

\* C7: GET /api/auth/me with a valid workos_session cookie of an active user
\* answers success with that user's profile (unless the rate limiter turned
\* the request away); 401 'Not authenticated' is answered only to a caller
\* without a valid session.
C7_MeAnswersProfile ==
  (http.request.endpoint = "GET /api/auth/me" /\ http.by # "rateLimitMiddleware") =>
    /\ ValidSessionOfActiveUser(http.request.cookie)
         => (http.status = 200 /\ http.body = http.request.cookie.user)
    /\ http.status = 401 => ~ValidSessionOfActiveUser(http.request.cookie)

\* ------------------------------------------------------------------------
\* The Navigation component
\* ------------------------------------------------------------------------
MaxScrollY == 60

\* the revisions of the component: 1 is lib/components/Navigation.svelte,
\* 2 and 3 the two later ones (3 has the darkBackground prop)
NavRevisions == 1..3

ScrollPositions == 0..MaxScrollY

Link(text, href) == [text |-> text, href |-> href]

\* the links the markup of a revision renders
Links(revision) ==
  IF revision = 1
    THEN {Link("Hiking", "#hiking"), Link("Camping", "#camping"),
          Link("Unit Management", "#unit-management")}
    ELSE {Link("Adventures", "#adventures"),
          Link("Unit Management", "#unit-management")}

\* the condition of the class expressions: scrolled || darkBackground in the
\* revision with the prop, scrolled in the others
solid(revision, isScrolled, dark) ==
  IF revision = 3 THEN isScrolled \/ dark ELSE isScrolled

\* the classes of the logo <img>
logoClass(revision, isScrolled, dark) ==
  {"w-auto", "transition-all", "duration-300"}
    \cup IF solid(revision, isScrolled, dark) THEN {"h-10"} ELSE {"h-14"}

\* the classes of each link
linkClass(revision, isScrolled, dark) ==
  {"font-medium", "transition-colors"}
    \cup (IF revision = 1 THEN {} ELSE {"cursor-pointer"})
    \cup IF solid(revision, isScrolled, dark)
           THEN {"text-gray-700", "hover:text-purple-600"}
           ELSE {"text-white", "hover:text-purple-200"}

\* the <nav> element with the class expression {scrolled ? ... : ...} in
\* every revision
navClass_ignoresDark(revision, isScrolled, dark) ==
  {"fixed", "top-0", "left-0", "right-0", "z-50", "transition-all", "duration-300"}
    \cup IF isScrolled
           THEN {"bg-white/95", "backdrop-blur-lg", "shadow-lg"}
           ELSE {"bg-transparent"}

\* the classes of the <nav> element
navClass(revision, isScrolled, dark) ==
  {"fixed", "top-0", "left-0", "right-0", "z-50", "transition-all", "duration-300"}
    \cup IF (IF revision = 3 THEN isScrolled \/ dark ELSE isScrolled)
           THEN {"bg-white/95", "backdrop-blur-lg", "shadow-lg"}
           ELSE {"bg-transparent"}

\* handleScroll with the threshold included
handleScroll_atThreshold(y) == y >= 50

\* handleScroll: the value it assigns to scrolled
handleScroll(y) == y > 50

\* window.addEventListener("scroll", handleScroll) with the handleScroll of
\* this mount
addEventListener(registered) == registered + 1

\* the function onMount returns, run on unmount, without the call of
\* removeEventListener
removeEventListener_keepsListener(registered) == registered

\* window.removeEventListener("scroll", handleScroll) with the same
\* handleScroll
removeEventListener(registered) == registered - 1

\* render(Navigation, {props}): $state(false), then onMount adds the listener
Render(revision, dark) ==
  /\ ~mounted
  /\ navRevision \in {0, revision}
  /\ dark => revision = 3
  /\ navRevision' = revision
  /\ darkBackground' = dark
  /\ scrolled' = FALSE
  /\ mounted' = TRUE
  /\ listeners' = addEventListener(listeners)
  /\ UNCHANGED <<scrollY, exceptNav>>

\* the window scrolls to y; the scroll event runs handleScroll when the
\* component listens
Scroll(y) ==
  /\ y # scrollY
  /\ scrollY' = y
  /\ scrolled' = IF listeners > 0 THEN handleScroll(y) ELSE scrolled
  /\ UNCHANGED <<navRevision, mounted, darkBackground, listeners, exceptNav>>

\* a click on a link: smoothScroll (the browser's jump to the anchor in
\* revision 1) scrolls the target into view when the page has the element
ClickLink(link, hasElement, y) ==
  /\ mounted
  /\ link \in Links(navRevision)
  /\ scrollY' = IF hasElement THEN y ELSE scrollY
  /\ scrolled' = IF scrollY' # scrollY /\ listeners > 0
                 THEN handleScroll(scrollY') ELSE scrolled
  /\ UNCHANGED <<navRevision, mounted, darkBackground, listeners, exceptNav>>

\* the component is destroyed: the function onMount returned removes the
\* listener
Destroy ==
  /\ mounted
  /\ mounted' = FALSE
  /\ listeners' = removeEventListener(listeners)
  /\ UNCHANGED <<navRevision, darkBackground, scrolled, scrollY, exceptNav>>

NextNav ==
  \/ \E revision \in NavRevisions, dark \in BOOLEAN : Render(revision, dark)
  \/ \E y \in ScrollPositions : Scroll(y)
  \/ \E link \in UNION {Links(revision) : revision \in NavRevisions},
        hasElement \in BOOLEAN, y \in ScrollPositions :
       ClickLink(link, hasElement, y)
  \/ Destroy

SpecNav == Init /\ [][NextNav]_vars

\* ------------------------------------------------------------------------
\* Properties of the Navigation component
\* ------------------------------------------------------------------------
\* C8: rendered without darkBackground, the <nav> element has the class
\* bg-transparent exactly when scrolled is false; scrolled is false when the
\* component mounts, and after a scroll event it equals (window.scrollY > 50).
C8_TransparentIffNotScrolled ==
  [][/\ (mounted' /\ ~darkBackground') =>
          (("bg-transparent" \in navClass(navRevision', scrolled', darkBackground'))
             <=> ~scrolled')
     /\ (~mounted /\ mounted') => ~scrolled'
     /\ (mounted /\ scrollY' # scrollY) => (scrolled' = (scrollY' > 50))]_vars

\* the component, rendered without darkBackground, was scrolled past the
\* threshold and lost the transparent background
C8_Witness ==
  /\ mounted /\ ~darkBackground /\ scrollY > 50 /\ scrolled
  /\ "bg-transparent" \notin navClass(navRevision, scrolled, darkBackground)

\* C9: the rendered component has a link 'Adventures' with href '#adventures'
\* and a link 'Unit Management' with href '#unit-management', in every scroll
\* state.
C9_RendersBothLinks ==
  mounted =>
    {Link("Adventures", "#adventures"), Link("Unit Management", "#unit-management")}
      \subseteq Links(navRevision)

\* ------------------------------------------------------------------------
\* The deployment workflow (.github/workflows/deploy.yml)
\* ------------------------------------------------------------------------
\* on: push to main, staging, develop; pull_request to main, staging
Triggers ==
  {[event |-> "push", ref |-> "refs/heads/main"],
   [event |-> "push", ref |-> "refs/heads/staging"],
   [event |-> "push", ref |-> "refs/heads/develop"],
   [event |-> "pull_request", ref |-> "refs/pull/1/merge"]}

\* job setup, step set-env
setupOutputs(ref) ==
  IF ref = "refs/heads/main"
    THEN [environment |-> "production", deploy |-> "true"]
  ELSE IF ref = "refs/heads/staging"
    THEN [environment |-> "staging", deploy |-> "true"]
  ELSE IF ref = "refs/heads/develop"
    THEN [environment |-> "development", deploy |-> "true"]
  ELSE [environment |-> "none", deploy |-> "false"]

\* needs with deploy-lambda not waiting for run-migrations
needs_lambdaWithoutMigrations(j) ==
  CASE j = "cdk-diff" -> {"setup"}
    [] j = "deploy-infrastructure" -> {"setup", "build-and-test", "security-scan"}
    [] j = "build-and-push-image" -> {"setup", "deploy-infrastructure"}
    [] j = "run-migrations" -> {"setup", "deploy-infrastructure", "build-and-push-image"}
    [] j = "deploy-application" ->
         {"setup", "deploy-infrastructure", "build-and-push-image", "run-migrations"}
    [] j = "deploy-lambda" -> {"setup", "deploy-infrastructure"}
    [] j = "verify-deployment" -> {"setup", "deploy-application", "deploy-lambda"}
    [] OTHER -> {}

\* needs with build-and-push-image not waiting for deploy-infrastructure
needs_imageNeedsSetupOnly(j) ==
  CASE j = "cdk-diff" -> {"setup"}
    [] j = "deploy-infrastructure" -> {"setup", "build-and-test", "security-scan"}
    [] j = "build-and-push-image" -> {"setup"}
    [] j = "run-migrations" -> {"setup", "deploy-infrastructure", "build-and-push-image"}
    [] j = "deploy-application" ->
         {"setup", "deploy-infrastructure", "build-and-push-image", "run-migrations"}
    [] j = "deploy-lambda" -> {"setup", "deploy-infrastructure", "run-migrations"}
    [] j = "verify-deployment" -> {"setup", "deploy-application", "deploy-lambda"}
    [] OTHER -> {}

\* needs: of each job
needs(j) ==
  CASE j = "cdk-diff" -> {"setup"}
    [] j = "deploy-infrastructure" -> {"setup", "build-and-test", "security-scan"}
    [] j = "build-and-push-image" -> {"setup", "deploy-infrastructure"}
    [] j = "run-migrations" -> {"setup", "deploy-infrastructure", "build-and-push-image"}
    [] j = "deploy-application" ->
         {"setup", "deploy-infrastructure", "build-and-push-image", "run-migrations"}
    [] j = "deploy-lambda" -> {"setup", "deploy-infrastructure", "run-migrations"}
    [] j = "verify-deployment" -> {"setup", "deploy-application", "deploy-lambda"}
    [] OTHER -> {}

\* if: with deploy-infrastructure lacking its condition
jobIf_infrastructureUnconditional(j, run) ==
  IF j = "cdk-diff" THEN run.event = "pull_request"
  ELSE IF j \in {"build-and-push-image", "run-migrations",
                 "deploy-application", "deploy-lambda", "verify-deployment"}
    THEN setupOutputs(run.ref).deploy = "true"
  ELSE TRUE

\* if: of each job
jobIf(j, run) ==
  IF j = "cdk-diff" THEN run.event = "pull_request"
  ELSE IF j \in {"deploy-infrastructure", "build-and-push-image", "run-migrations",
                 "deploy-application", "deploy-lambda", "verify-deployment"}
    THEN setupOutputs(run.ref).deploy = "true"
  ELSE TRUE

\* environment: of each job
jobEnvironment(j, run) ==
  IF j = "deploy-infrastructure" THEN setupOutputs(run.ref).environment ELSE "none"

\* Environment Strategy: the environments whose deployments need approval
ApprovalRequired(environment) == environment = "production"

Completed == {"success", "failure", "rejected", "skipped"}

\* a job runs when the jobs it needs succeeded and its if: holds
Runnable(j) ==
  /\ ciRun # NoRun
  /\ ciJobs[j] = "queued"
  /\ \A n \in needs(j) : ciJobs[n] \in Completed

ShallRun(j) == (\A n \in needs(j) : ciJobs[n] = "success") /\ jobIf(j, ciRun)

\* a push or pull request triggers the workflow
Trigger(run) ==
  /\ ciRun = NoRun
  /\ ciRun' = run
  /\ UNCHANGED <<ciJobs, approval, exceptCi>>

\* a job starts, or waits for the reviewers of its environment
StartJob(j) ==
  /\ Runnable(j) /\ ShallRun(j)
  /\ ciJobs' = [ciJobs EXCEPT ![j] =
                  IF ApprovalRequired(jobEnvironment(j, ciRun)) /\ approval # "approved"
                    THEN "waiting" ELSE "in_progress"]
  /\ UNCHANGED <<ciRun, approval, exceptCi>>

SkipJob(j) ==
  /\ Runnable(j) /\ ~ShallRun(j)
  /\ ciJobs' = [ciJobs EXCEPT ![j] = "skipped"]
  /\ UNCHANGED <<ciRun, approval, exceptCi>>

\* a reviewer approves (the job starts) or rejects (the job fails unrun)
Review(j, approve) ==
  /\ ciJobs[j] = "waiting"
  /\ approval' = IF approve THEN "approved" ELSE "rejected"
  /\ ciJobs' = [ciJobs EXCEPT ![j] = IF approve THEN "in_progress" ELSE "rejected"]
  /\ UNCHANGED <<ciRun, exceptCi>>

FinishJob(j, ok) ==
  /\ ciJobs[j] = "in_progress"
  /\ ciJobs' = [ciJobs EXCEPT ![j] = IF ok THEN "success" ELSE "failure"]
  /\ UNCHANGED <<ciRun, approval, exceptCi>>

NextPipeline ==
  \/ \E run \in Triggers : Trigger(run)
  \/ \E j \in JobNames : StartJob(j)
  \/ \E j \in JobNames : SkipJob(j)
  \/ \E j \in JobNames, approve \in BOOLEAN : Review(j, approve)
  \/ \E j \in JobNames, ok \in BOOLEAN : FinishJob(j, ok)

SpecPipeline == Init /\ [][NextPipeline]_vars

\* ------------------------------------------------------------------------
\* Properties of the deployment workflow
\* ------------------------------------------------------------------------
ProductionChangingJobs ==
  {"deploy-infrastructure", "build-and-push-image", "run-migrations",
   "deploy-application", "deploy-lambda"}

Started(j) == ciJobs[j] \in {"in_progress", "success", "failure"}

\* C10: on a push to main no job that changes production
\* (deploy-infrastructure, build-and-push-image, run-migrations,
\* deploy-application, deploy-lambda) starts before the deployment was
\* approved; on a push to develop or staging the jobs start without waiting
\* for an approval.
C10_ProductionOnlyAfterApproval ==
  /\ ciRun.ref = "refs/heads/main" =>
       \A j \in ProductionChangingJobs : Started(j) => approval = "approved"
  /\ ciRun.ref \in {"refs/heads/staging", "refs/heads/develop"} =>
       /\ approval = "none"
       /\ \A j \in JobNames : ciJobs[j] # "waiting"

\* a push to main was approved and deployed the application
C10_Witness ==
  /\ ciRun.ref = "refs/heads/main"
  /\ approval = "approved"
  /\ ciJobs["deploy-application"] = "success"

\* C11: deploy-application and deploy-lambda start only after run-migrations
\* has completed successfully, and when run-migrations fails neither of them
\* runs.
C11_MigrationsBeforeCodeDeployment ==
  \A j \in {"deploy-application", "deploy-lambda"} :
    /\ ciJobs[j] \notin {"queued", "skipped"} => ciJobs["run-migrations"] = "success"
    /\ ciJobs["run-migrations"] = "failure" => ciJobs[j] \in {"queued", "skipped"}

\* the migrations failed and both code deployments were skipped
C11_Witness ==
  /\ ciJobs["run-migrations"] = "failure"
  /\ ciJobs["deploy-application"] = "skipped"
  /\ ciJobs["deploy-lambda"] = "skipped"

DeployJobs == ProductionChangingJobs \cup {"verify-deployment"}

\* C12: a deploy job runs only in a run triggered by a push to main, staging
\* or develop in which build-and-test and security-scan both succeeded; a
\* pull-request run gets deploy=false and environment=none and runs no deploy
\* job.
C12_DeployOnlyOnPushAfterChecks ==
  /\ \A j \in DeployJobs :
       ciJobs[j] \notin {"queued", "skipped"} =>
         /\ ciRun.event = "push"
         /\ ciRun.ref \in {"refs/heads/main", "refs/heads/staging", "refs/heads/develop"}
         /\ ciJobs["build-and-test"] = "success"
         /\ ciJobs["security-scan"] = "success"
  /\ ciRun.event = "pull_request" =>
       /\ setupOutputs(ciRun.ref) = [environment |-> "none", deploy |-> "false"]
       /\ \A j \in DeployJobs : ciJobs[j] \in {"queued", "skipped"}

\* a pull-request run passed its checks and skipped the deployment
C12_Witness ==
  /\ ciRun.event = "pull_request"
  /\ ciJobs["build-and-test"] = "success"
  /\ ciJobs["security-scan"] = "success"
  /\ ciJobs["deploy-infrastructure"] = "skipped"

\* ------------------------------------------------------------------------
\* The notification queue and its worker (lambda-workers/src/worker.ts)
\* ------------------------------------------------------------------------
\* RedrivePolicy of notifications-queue
maxReceiveCount == 3

\* ReceiveMessageCommand
MaxNumberOfMessages == 10

\* what a message body holds: the notificationId of a row, or text that is
\* not JSON (JSON.parse throws, in the try block and again in the catch block)
MessageKinds == {"notification", "malformed"}

\* a producer sends message m (ids are given in the order of sending); the
\* notification it names is PENDING
Enqueue(m, kind) ==
  /\ sqs[m].state = "absent"
  /\ \A n \in MessageIds : n < m => sqs[n].state # "absent"
  /\ sqs' = [sqs EXCEPT ![m] = [state |-> "visible", kind |-> kind, receiveCount |-> 0]]
  /\ notifications' = [notifications EXCEPT ![m] =
                         IF kind = "notification" THEN "PENDING" ELSE "absent"]
  /\ UNCHANGED <<workerPc, batch, current, exceptWorker>>

\* a queue without a redrive policy
Redrivable_never(msg) == FALSE

\* the redrive policy: a message received maxReceiveCount times goes to the
\* dead-letter queue at the next receive instead of being delivered
Redrivable(msg) == msg.state = "visible" /\ msg.receiveCount >= maxReceiveCount

\* SQS moves a message to notifications-dlq while the worker polls
Redrive(m) ==
  /\ workerPc = "poll"
  /\ Redrivable(sqs[m])
  /\ sqs' = [sqs EXCEPT ![m].state = "dlq"]
  /\ UNCHANGED <<notifications, workerPc, batch, current, exceptWorker>>

\* the visibility timeout of a received message runs out
VisibilityTimeout(m) ==
  /\ sqs[m].state = "inflight"
  /\ sqs' = [sqs EXCEPT ![m].state = "visible"]
  /\ UNCHANGED <<notifications, workerPc, batch, current, exceptWorker>>

\* pollQueue: ReceiveMessage answers with some of the visible messages
Receive(S) ==
  /\ workerPc = "poll"
  /\ S # {} /\ Cardinality(S) <= MaxNumberOfMessages
  /\ \A m \in S : sqs[m].state = "visible" /\ ~Redrivable(sqs[m])
  /\ sqs' = [m \in MessageIds |->
               IF m \in S
                 THEN [sqs[m] EXCEPT !.state = "inflight",
                                     !.receiveCount =
                                       IF @ < maxReceiveCount THEN @ + 1 ELSE @]
                 ELSE sqs[m]]
  /\ batch' = S
  /\ workerPc' = "loop"
  /\ UNCHANGED <<notifications, current, exceptWorker>>

\* processMessage on a message of the kind, the notification having the
\* status: [status, thrown]. outcome: which update throws, if any; catchOk:
\* whether the update to FAILED in the catch block succeeds
processMessage(kind, status, outcome, catchOk) ==
  IF kind = "malformed" THEN [status |-> status, thrown |-> TRUE]
  ELSE IF outcome = "sent" THEN [status |-> "SENT", thrown |-> FALSE]
  ELSE [status |-> IF catchOk THEN "FAILED"
                   ELSE IF outcome = "failSecond" THEN "PROCESSING" ELSE status,
        thrown |-> TRUE]

\* a loop body that deletes the message whether processMessage threw or not
afterProcessMessage_alwaysDelete(thrown) == "delete"

\* pollQueue's try block: DeleteMessage follows processMessage unless it threw
afterProcessMessage(thrown) == IF thrown THEN "next" ELSE "delete"

NextPc(rest) == IF rest = {} THEN "poll" ELSE "loop"

\* one iteration of the for loop up to the end of processMessage
HandleMessage(m, outcome, catchOk) ==
  LET r == processMessage(sqs[m].kind, notifications[m], outcome, catchOk)
  IN /\ workerPc = "loop"
     /\ m \in batch
     /\ notifications' = [notifications EXCEPT ![m] = r.status]
     /\ IF afterProcessMessage(r.thrown) = "delete"
          THEN /\ workerPc' = "delete"
               /\ current' = m
               /\ batch' = batch
          ELSE /\ workerPc' = NextPc(batch \ {m})
               /\ current' = current
               /\ batch' = batch \ {m}
     /\ UNCHANGED <<sqs, exceptWorker>>

\* DeleteMessageCommand with the message's receipt handle; when it throws the
\* catch block logs and the loop goes on
DeleteMessage(ok) ==
  /\ workerPc = "delete"
  /\ sqs' = IF ok /\ sqs[current].state \in {"inflight", "visible"}
              THEN [sqs EXCEPT ![current].state = "deleted"]
              ELSE sqs
  /\ batch' = batch \ {current}
  /\ workerPc' = NextPc(batch \ {current})
  /\ current' = 0
  /\ UNCHANGED <<notifications, exceptWorker>>

NextWorker ==
  \/ \E m \in MessageIds, kind \in MessageKinds : Enqueue(m, kind)
  \/ \E m \in MessageIds : Redrive(m)
  \/ \E m \in MessageIds : VisibilityTimeout(m)
  \/ \E S \in SUBSET MessageIds : Receive(S)
  \/ \E m \in MessageIds, outcome \in {"sent", "failFirst", "failSecond"},
        catchOk \in BOOLEAN : HandleMessage(m, outcome, catchOk)
  \/ \E ok \in BOOLEAN : DeleteMessage(ok)

SpecWorker == Init /\ [][NextWorker]_vars

\* the steps of pollQueue, and the steps of SQS
WorkerStep ==
  \/ \E S \in SUBSET MessageIds : Receive(S)
  \/ \E m \in MessageIds, outcome \in {"sent", "failFirst", "failSecond"},
        catchOk \in BOOLEAN : HandleMessage(m, outcome, catchOk)
  \/ \E ok \in BOOLEAN : DeleteMessage(ok)

QueueStep == \E m \in MessageIds : Redrive(m) \/ VisibilityTimeout(m)

\* the worker's loop goes on (a poll is answered with visible messages when
\* there are any), and SQS goes on expiring timeouts and redriving
SpecWorkerFair == SpecWorker /\ WF_vars(WorkerStep) /\ WF_vars(QueueStep)

Settled(m) == sqs[m].state \in {"deleted", "dlq"}

MaxListLen == 11

\* the messages of the model, and the lists sendBatch is called with
Messages == {"a", "b"}

RECURSIVE ListsOfLen(_)
ListsOfLen(n) ==
  IF n = 0 THEN {<<>>}
  ELSE {Append(l, x) : l \in ListsOfLen(n - 1), x \in Messages}

MessageLists == UNION {ListsOfLen(n) : n \in 0..MaxListLen}

\* SQS batch limit, the size sendBatch passes to chunkArray
BatchSize == 10

\* array.slice(from, to)
slice(array, from, to) ==
  SubSeq(array, from + 1, IF to < Len(array) THEN to ELSE Len(array))

\* chunkArray: the chunks pushed by the loop from index i on
RECURSIVE chunkArrayFrom(_, _, _)
chunkArrayFrom(array, size, i) ==
  IF i < Len(array)
    THEN <<slice(array, i, i + size)>> \o chunkArrayFrom(array, size, i + size)
    ELSE <<>>

\* chunkArray whose slices end one element late (slice(i, i + size + 1))
chunkArray_sliceTooLong(array, size) ==
  [c \in 1..Len(chunkArrayFrom(array, size, 0)) |->
     slice(array, (c - 1) * size, c * size + 1)]

chunkArray(array, size) == chunkArrayFrom(array, size, 0)

\* index.toString(): the decimal digits of the index
RECURSIVE toString(_)
toString(n) ==
  LET digit == <<"0", "1", "2", "3", "4", "5", "6", "7", "8", "9">>[(n % 10) + 1]
  IN IF n < 10 THEN <<digit>> ELSE Append(toString(n \div 10), digit)

\* JSON.stringify of a message
JSONstringify(msg) == <<"\"", msg, "\"">>

\* chunk.map((msg, index) => ({ Id, MessageBody }))
Entries(chunk) ==
  [index \in 1..Len(chunk) |->
     [Id |-> toString(index - 1), MessageBody |-> JSONstringify(chunk[index])]]

\* the call of sendBatch(messages): the chunks are computed
SendBatch(messages) ==
  /\ sbPc = "idle"
  /\ sbMessages' = messages
  /\ sbChunks' = chunkArray(messages, BatchSize)
  /\ sbRequests' = <<>>
  /\ sbFailed' = {}
  /\ sbPc' = IF sbChunks' = <<>> THEN "returned" ELSE "loop"
  /\ UNCHANGED exceptQueueService

\* the entries of a request SQS can report in result.Failed: none, or the
\* first one
FailedIds == {{}, {"0"}}

\* one iteration of the loop: the command for the next chunk is sent; when
\* sqsClient.send throws, sendBatch logs and rethrows; the entries SQS
\* reports in result.Failed are logged and the loop goes on
SendChunk(ok, failed) ==
  LET next == Len(sbRequests) + 1
  IN /\ sbPc = "loop"
     /\ IF ok
          THEN /\ sbRequests' = Append(sbRequests, Entries(sbChunks[next]))
               /\ sbFailed' = sbFailed \cup {<<next, id>> : id \in failed}
               /\ sbPc' = IF next = Len(sbChunks) THEN "returned" ELSE "loop"
          ELSE /\ sbRequests' = sbRequests
               /\ sbFailed' = sbFailed
               /\ sbPc' = "thrown"
     /\ UNCHANGED <<sbMessages, sbChunks, exceptQueueService>>

NextQueueService ==
  \/ \E messages \in MessageLists : SendBatch(messages)
  \/ \E ok \in BOOLEAN, failed \in FailedIds : SendChunk(ok, failed)

SpecQueueService == Init /\ [][NextQueueService]_vars

\* ------------------------------------------------------------------------
\* Properties of QueueService.sendBatch
\* ------------------------------------------------------------------------
RECURSIVE Bodies_(_)
Bodies_(requests) ==
  IF requests = <<>> THEN <<>>
  ELSE [i \in 1..Len(Head(requests)) |-> Head(requests)[i].MessageBody]
         \o Bodies_(Tail(requests))

\* C15: the batch requests of a call of sendBatch each hold between 1 and 10
\* messages with pairwise distinct entry Ids; in the order sent they hold the
\* first messages of the input in the input's order, and all of them, each
\* exactly once, when the call returns; an empty input sends no request.
C15_SendBatchSplitsIntoBatches ==
  LET bodies == Bodies_(sbRequests)
  IN /\ \A r \in 1..Len(sbRequests) :
          /\ Len(sbRequests[r]) \in 1..10
          /\ \A i, j \in 1..Len(sbRequests[r]) :
               i # j => sbRequests[r][i].Id # sbRequests[r][j].Id
     /\ Len(bodies) <= Len(sbMessages)
     /\ \A i \in 1..Len(bodies) : bodies[i] = JSONstringify(sbMessages[i])
     /\ sbPc = "returned" => Len(bodies) = Len(sbMessages)
     /\ sbMessages = <<>> => sbRequests = <<>>

\* a call with more than ten messages returned after two requests
C15_Witness ==
  /\ sbPc = "returned"
  /\ Len(sbMessages) > 10
  /\ Len(sbRequests) = 2
  /\ Len(sbRequests[1]) = 10

\* ------------------------------------------------------------------------
\* The API process and its shutdown (server.ts, config/database.ts)
\* ------------------------------------------------------------------------
MaxConnections == 2

MaxSignals == 2

\* startServer: prisma.$connect resolves and the server listens, with the
\* handlers of shutdown registered; or it rejects and the catch block exits
StartServer(ok) ==
  /\ ~exited
  /\ server = "starting"
  /\ IF ok
       THEN /\ prismaConn' = "connected"
            /\ server' = "listening"
            /\ UNCHANGED <<exited, exitCode>>
       ELSE /\ exited' = TRUE
            /\ exitCode' = 1
            /\ UNCHANGED <<prismaConn, server>>
  /\ UNCHANGED <<connections, signal, dbHandler, closeCallback, timer, exceptServer>>

\* a client connects to the listening server
Connect ==
  /\ ~exited
  /\ server = "listening"
  /\ connections < MaxConnections
  /\ connections' = connections + 1
  /\ UNCHANGED <<server, prismaConn, signal, dbHandler, closeCallback, timer, exited,
                 exitCode, exceptServer>>

\* a connection ends
Disconnect ==
  /\ ~exited
  /\ connections > 0
  /\ connections' = connections - 1
  /\ UNCHANGED <<server, prismaConn, signal, dbHandler, closeCallback, timer, exited,
                 exitCode, exceptServer>>

\* database.ts: process.on(signal, async () => { await prisma.$disconnect();
\* ... }) up to the await
databaseSignalHandler(state) == "disconnecting"

\* SIGTERM or SIGINT: the handlers run in the order they were registered,
\* database.ts's (registered when server.ts imports it) first, then, once
\* startServer has registered it, shutdown(signal), which calls server.close
\* and sets the timer (of several timers the first set fires first); a server
\* without connections emits 'close' on the next tick, before any I/O ends
Signal(sig) ==
  /\ ~exited
  /\ Len(signal) < MaxSignals
  /\ signal' = Append(signal, sig)
  /\ dbHandler' = databaseSignalHandler(dbHandler)
  /\ IF server = "starting"
       THEN UNCHANGED <<server, timer, closeCallback>>
       ELSE /\ server' = IF connections = 0 THEN "closed" ELSE "closing"
            /\ closeCallback' = IF server # "closed" /\ connections = 0
                                  THEN "disconnecting" ELSE closeCallback
            /\ timer' = "armed"
  /\ UNCHANGED <<connections, prismaConn, exited, exitCode, exceptServer>>

\* database.ts's handler after the await: process.exit(0)
DatabaseHandlerExits ==
  /\ ~exited
  /\ dbHandler = "disconnecting"
  /\ prismaConn' = "disconnected"
  /\ dbHandler' = "idle"
  /\ exited' = TRUE
  /\ exitCode' = 0
  /\ UNCHANGED <<server, connections, signal, closeCallback, timer, exceptServer>>

\* the server has no connection left: 'close' is emitted and the callback of
\* server.close runs up to its await
ServerClosed ==
  /\ ~exited
  /\ server = "closing"
  /\ connections = 0
  /\ server' = "closed"
  /\ closeCallback' = "disconnecting"
  /\ UNCHANGED <<connections, prismaConn, signal, dbHandler, timer, exited, exitCode,
                 exceptServer>>

\* the callback after the await: process.exit(0)
CloseCallbackExits ==
  /\ ~exited
  /\ closeCallback = "disconnecting"
  /\ prismaConn' = "disconnected"
  /\ closeCallback' = "idle"
  /\ exited' = TRUE
  /\ exitCode' = 0
  /\ UNCHANGED <<server, connections, signal, dbHandler, timer, exceptServer>>

\* 10 seconds after the signal: process.exit(1)
ForcedShutdown ==
  /\ ~exited
  /\ timer = "armed"
  /\ timer' = "fired"
  /\ exited' = TRUE
  /\ exitCode' = 1
  /\ UNCHANGED <<server, connections, prismaConn, signal, dbHandler, closeCallback,
                 exceptServer>>

NextServer ==
  \/ \E ok \in BOOLEAN : StartServer(ok)
  \/ Connect
  \/ Disconnect
  \/ \E sig \in {"SIGTERM", "SIGINT"} : Signal(sig)
  \/ DatabaseHandlerExits
  \/ ServerClosed
  \/ CloseCallbackExits
  \/ ForcedShutdown

SpecServer == Init /\ [][NextServer]_vars

\* ------------------------------------------------------------------------
\* Properties of the shutdown
\* ------------------------------------------------------------------------
\* C16: once shutdown(signal) has run for a SIGTERM or SIGINT, the process
\* exits with code 0 only when the HTTP server has finished closing and the
\* database connection was closed; the only other exit is code 1 from the forced-shutdown timer;
\* no exit happens while the server is still closing and the timer has not
\* fired.
C16_ExitOnlyAfterServerClosed ==
  (exited /\ signal # <<>> /\ timer # "unset") =>
    /\ exitCode = 0 => (server = "closed" /\ prismaConn = "disconnected")
    /\ exitCode # 0 => (exitCode = 1 /\ timer = "fired")
    /\ server = "closing" => timer = "fired"

\* ------------------------------------------------------------------------
\* Subdomain routing (resolveSubdomain, subdomainMiddleware)
\* ------------------------------------------------------------------------
\* strings are sequences of characters; a property that is undefined is
\* the value `undefined`, which is no string
undefined == <<"undefined">>

www == <<"w", "w", "w">>
hiking == <<"h", "i", "k", "i", "n", "g">>
camping == <<"c", "a", "m", "p", "i", "n", "g">>
admin == <<"a", "d", "m", "i", "n">>
unitspark == <<"u", "n", "i", "t", "s", "p", "a", "r", "k">>
org == <<"o", "r", "g">>

\* Array.prototype.join
RECURSIVE join(_, _)
join(parts, sep) ==
  IF parts = <<>> THEN <<>>
  ELSE IF Len(parts) = 1 THEN parts[1]
  ELSE parts[1] \o <<sep>> \o join(Tail(parts), sep)

\* String.prototype.split with a one-character separator
RECURSIVE split(_, _)
split(s, sep) ==
  IF \A i \in 1..Len(s) : s[i] # sep THEN <<s>>
  ELSE LET i == CHOOSE k \in 1..Len(s) :
                  s[k] = sep /\ \A j \in 1..(k - 1) : s[j] # sep
       IN <<SubSeq(s, 1, i - 1)>> \o split(SubSeq(s, i + 1, Len(s)), sep)

\* req.hostname of the requests: the Domain Structure's sites, the slugs
\* generateSlug makes, other first labels, and shorter and longer names
FirstLabels ==
  {www, hiking, camping, admin, unitspark, org, <<"W", "W", "W">>,
   <<"H", "i", "k", "i", "n", "g">>, <<"a", "d", "m", "i", "n", "s">>,
   <<"p", "9">>, <<"1", "2", "7">>, <<>>}
    \cup {SlugOf[n] : n \in OrgNames}
Suffixes ==
  {<<>>, <<org>>, <<unitspark, org>>, <<hiking, unitspark, org>>,
   <<www, unitspark, org>>, <<admin>>, <<<<>>>>, <<unitspark, org, <<>>>>}
Hostnames == {join(<<l>> \o s, ".") : l \in FirstLabels, s \in Suffixes}

\* resolveSubdomain without the branch for 'admin'
resolveSubdomain_adminIsOrganization(hostname) ==
  LET parts == split(hostname, ".")
      subdomain == parts[1]
  IN IF Len(parts) <= 2 \/ parts[1] = www
       THEN [type |-> "main", site |-> unitspark, slug |-> undefined]
     ELSE IF subdomain = hiking
       THEN [type |-> "platform", site |-> hiking, slug |-> undefined]
     ELSE IF subdomain = camping
       THEN [type |-> "platform", site |-> camping, slug |-> undefined]
     ELSE [type |-> "organization", site |-> undefined, slug |-> subdomain]

resolveSubdomain(hostname) ==
  LET parts == split(hostname, ".")
      subdomain == parts[1]
  IN IF Len(parts) <= 2 \/ parts[1] = www
       THEN [type |-> "main", site |-> unitspark, slug |-> undefined]
     ELSE IF subdomain = hiking
       THEN [type |-> "platform", site |-> hiking, slug |-> undefined]
     ELSE IF subdomain = camping
       THEN [type |-> "platform", site |-> camping, slug |-> undefined]
     ELSE IF subdomain = admin
       THEN [type |-> "admin", site |-> <<"p", "l", "a", "t", "f", "o", "r", "m">>,
             slug |-> undefined]
     ELSE [type |-> "organization", site |-> undefined, slug |-> subdomain]

\* the hostnames of requests to the sites under unitspark.org: one per slug
\* generateSlug makes, one of no organization, and the admin dashboard
SiteHostnames ==
  {join(<<l, unitspark, org>>, ".") :
     l \in {SlugOf[n] : n \in OrgNames} \cup {<<"p", "9">>, admin}}

\* resolveSubdomain on the hostnames of the model, evaluated once
Resolved == [h \in Hostnames |-> resolveSubdomain(h)]

\* prisma.organization.findUnique({ where: { slug } }): the matching rows
organizationFindUniqueBySlug(os, slug) == {r \in os : r.slug = slug}

\* the middleware with the condition `if (!org)`
subdomainMiddleware_ignoresIsActive(hostname, os) ==
  LET r == Resolved[hostname]
      found == IF r.type = "organization"
                 THEN organizationFindUniqueBySlug(os, r.slug) ELSE {}
  IN IF r.type = "organization" /\ found = {}
       THEN [hostname |-> hostname, status |-> 404, body |-> "Organization not found",
             next |-> FALSE, organization |-> {}, siteType |-> "none", site |-> <<>>,
             resolved |-> r]
       ELSE [hostname |-> hostname, status |-> 0, body |-> "", next |-> TRUE,
             organization |-> found, siteType |-> r.type,
             site |-> IF r.site # undefined THEN r.site ELSE r.slug,
             resolved |-> r]

\* what the middleware leaves on the request and the response: status 0 when
\* it sent nothing and called next()
subdomainMiddleware(hostname, os) ==
  LET r == Resolved[hostname]
      found == IF r.type = "organization"
                 THEN organizationFindUniqueBySlug(os, r.slug) ELSE {}
  IN IF r.type = "organization" /\ (found = {} \/ \E o \in found : ~o.isActive)
       THEN [hostname |-> hostname, status |-> 404, body |-> "Organization not found",
             next |-> FALSE, organization |-> {}, siteType |-> "none", site |-> <<>>,
             resolved |-> r]
       ELSE [hostname |-> hostname, status |-> 0, body |-> "", next |-> TRUE,
             organization |-> found, siteType |-> r.type,
             site |-> IF r.site # undefined THEN r.site ELSE r.slug,
             resolved |-> r]

\* a request with this hostname passes through the middleware
SubdomainRequest(hostname) ==
  /\ siteReq' = subdomainMiddleware(hostname, organizations)
  /\ UNCHANGED exceptSite

\* requests with any hostname, against the organizations of a signed-up user
NextResolve == \E h \in Hostnames : SubdomainRequest(h)

SpecResolve == InitLoggedIn /\ [][NextResolve]_vars

\* the number of events WorkOS emits while the sites are requested
MaxSiteEvents == 2

NextSite ==
  \/ \E o \in WorkosOrgIds, n \in OrgNames :
       sent < MaxSiteEvents /\ WorkOSOrganizationCreated(o, n)
  \/ \E o \in WorkosOrgIds, n \in OrgNames :
       sent < MaxSiteEvents /\ WorkOSOrganizationUpdated(o, n)
  \/ \E o \in WorkosOrgIds :
       sent < MaxSiteEvents /\ WorkOSOrganizationDeleted(o)
  \/ \E e \in inflight, last \in BOOLEAN : DeliverWebhook(e, TRUE, last)
  \/ \E h \in SiteHostnames : SubdomainRequest(h)

SpecSite == Init /\ [][NextSite]_vars

\* ------------------------------------------------------------------------
\* Properties of the subdomain routing
\* ------------------------------------------------------------------------
\* the organizations a slug must not be served for: none has the slug, or the
\* one that has it is inactive or its organization.deleted webhook was processed
NotServable(slug) ==
  LET matching == {o \in organizations : o.slug = slug}
  IN \/ matching = {}
     \/ \E o \in matching : ~o.isActive \/ o.workosOrgId \in orgSoftDeleted

\* C17: for a hostname of type organization whose slug belongs to no
\* organization, to an inactive one or to one whose organization.deleted
\* webhook was processed, subdomainMiddleware answers 404 'Organization not
\* found' and does not call next(); req.organization is only ever set to an
\* existing active organization with the hostname's slug.
C17_UnknownOrInactiveOrganization404 ==
  [][\A h \in SiteHostnames : SubdomainRequest(h) =>
       /\ (Resolved[h].type = "organization" /\ NotServable(Resolved[h].slug)) =>
            /\ siteReq'.status = 404
            /\ siteReq'.body = "Organization not found"
            /\ ~siteReq'.next
       /\ \A o \in siteReq'.organization :
            /\ o \in organizations
            /\ o.isActive
            /\ o.workosOrgId \notin orgSoftDeleted
            /\ o.slug = Resolved[h].slug]_vars

\* a request for the site of an organization whose organization.deleted
\* webhook was processed was answered 404
C17_Witness ==
  /\ siteReq.status = 404
  /\ ~siteReq.next
  /\ \E o \in organizations :
       /\ o.slug = Resolved[siteReq.hostname].slug
       /\ o.workosOrgId \in orgSoftDeleted

\* the labels of a hostname
Labels(hostname) == split(hostname, ".")

\* C18: resolveSubdomain returns for every hostname exactly one of the types
\* main, platform, admin and organization: main for at most two labels or the
\* first label 'www'; otherwise platform for the first label 'hiking' or
\* 'camping'; otherwise admin for 'admin'; otherwise organization with the
\* first label as slug. 'www', 'hiking', 'camping' and 'admin' are never the
\* slug.
C18_ResolveSubdomainClassifies ==
  siteReq # NoSiteRequest =>
    LET parts == Labels(siteReq.hostname)
        r == siteReq.resolved
        isMain == Len(parts) <= 2 \/ parts[1] = www
        isPlatform == ~isMain /\ parts[1] \in {hiking, camping}
        isAdmin == ~isMain /\ parts[1] = admin
    IN /\ r.type \in {"main", "platform", "admin", "organization"}
       /\ r.type = "main" <=> isMain
       /\ r.type = "platform" <=> isPlatform
       /\ r.type = "admin" <=> isAdmin
       /\ r.type = "platform" => r.site = parts[1]
       /\ r.type = "organization" <=> r.slug # undefined
       /\ r.type = "organization" => r.slug = parts[1]
       /\ r.slug \notin {www, hiking, camping, admin}

\* a hostname of three labels was classified as an organization's, and one
\* whose first label is reserved was not
C18_Witness ==
  /\ siteReq.resolved.type \in {"organization", "admin"}
  /\ Len(Labels(siteReq.hostname)) > 2
  /\ siteReq.resolved.type = "organization" <=> siteReq.resolved.slug = Labels(siteReq.hostname)[1]

\* ------------------------------------------------------------------------
\* Super admin access (enterOrganization)
\* ------------------------------------------------------------------------
\* enum PlatformRole
PlatformRoles == {"GUEST", "USER", "CONTENT_REVIEWER", "PLATFORM_ADMIN", "SUPER_ADMIN"}

\* req.user: undefined for an unauthenticated request, else a user of the
\* users table with a platform role
Callers ==
  {NoCaller} \cup {[id |-> u, platformRole |-> r] : u \in WorkosUserIds, r \in PlatformRoles}

\* req.body.organizationId: an organization id or undefined
OrganizationIds == WorkosOrgIds \cup {Null}

\* prisma.organizationMembership.create of the temporary membership: throws
\* on a missing organizationId, on a foreign key without its row and on the
\* unique constraint (userId, organizationId)
supportMembershipCreate(db, userId, organizationId) ==
  IF \/ organizationId = Null
     \/ userFindUnique(db.users, userId) = {}
     \/ organizationFindUnique(db.organizations, organizationId) = {}
    THEN [ok |-> FALSE, memberships |-> db.memberships]
    ELSE membershipCreate(db.memberships,
           [MembershipRow(userId, organizationId, "ADMIN")
              EXCEPT !.title = "Platform Support"])

\* the row prisma.auditLog.create writes
AuditLogRow(userId, organizationId) ==
  [userId |-> userId, action |-> "SUPER_ADMIN_ENTERED_ORG",
   entity |-> "Organization", entityId |-> organizationId]

\* req.user?.platformRole !== 'SUPER_ADMIN', negated
isSuperAdmin(caller) == caller.platformRole = "SUPER_ADMIN"

\* enterOrganization up to its first write: 403 for a caller who is no super
\* admin, else the temporary membership is created; a throw ends the request
\* without an answer of the handler
EnterOrganization(caller, organizationId) ==
  LET r == supportMembershipCreate(Db, caller.id, organizationId)
  IN /\ enterPc.state = "idle"
     /\ caller # NoCaller => userFindUnique(users, caller.id) # {}
     /\ IF ~isSuperAdmin(caller)
          THEN /\ enterRes' = [caller |-> caller, organizationId |-> organizationId,
                               status |-> 403, body |-> "Forbidden"]
               /\ UNCHANGED <<memberships, entered, enterPc>>
          ELSE IF r.ok
            THEN /\ memberships' = r.memberships
                 /\ entered' = entered \cup
                      {[userId |-> caller.id, organizationId |-> organizationId,
                        platformRole |-> caller.platformRole]}
                 /\ enterPc' = [state |-> "auditLog", caller |-> caller,
                                organizationId |-> organizationId]
                 /\ enterRes' = [caller |-> caller, organizationId |-> organizationId,
                                 status |-> 0, body |-> ""]
            ELSE /\ enterRes' = [caller |-> caller, organizationId |-> organizationId,
                                 status |-> 0, body |-> "thrown"]
                 /\ UNCHANGED <<memberships, entered, enterPc>>
     /\ UNCHANGED <<wUsers, wOrgs, wMembers, inflight, sent, users, organizations,
                    softDeleted, orgSoftDeleted, lost, resp, auditLogs,
                    exceptSyncSupport>>

\* the second write, prisma.auditLog.create, and the answer; when the write
\* throws the handler answers nothing and the membership stays
AuditLogCreate(ok) ==
  /\ enterPc.state = "auditLog"
  /\ auditLogs' = IF ok
                    THEN auditLogs \cup {AuditLogRow(enterPc.caller.id, enterPc.organizationId)}
                    ELSE auditLogs
  /\ enterRes' = [enterRes EXCEPT !.status = IF ok THEN 200 ELSE 0,
                                  !.body = IF ok THEN "success" ELSE "thrown"]
  /\ enterPc' = NoEnter
  /\ UNCHANGED <<syncVars, entered, exceptSyncSupport>>

NextSupport ==
  \/ \E caller \in Callers, o \in OrganizationIds : EnterOrganization(caller, o)
  \/ \E ok \in BOOLEAN : AuditLogCreate(ok)
  \/ \E o \in WorkosOrgIds, n \in OrgNames : WorkOSOrganizationCreated(o, n)
  \/ \E e \in inflight, last \in BOOLEAN : DeliverWebhook(e, TRUE, last)

SpecSupport == InitLoggedIn /\ [][NextSupport]_vars

\* ------------------------------------------------------------------------
\* Properties of the super admin access
\* ------------------------------------------------------------------------
\* C19: every membership with the title 'Platform Support' was created for a
\* caller with the platform role SUPER_ADMIN and has an audit-log entry
\* SUPER_ADMIN_ENTERED_ORG of the same user for the same organization; a
\* caller with another role, or none, was answered 403 and nothing was written
\* for that caller.
C19_SupportMembershipAudited ==
  /\ \A m \in memberships : m.title = "Platform Support" =>
       /\ \A e \in entered :
            (e.userId = m.userId /\ e.organizationId = m.organizationId) =>
              e.platformRole = "SUPER_ADMIN"
       /\ \E e \in entered :
            e.userId = m.userId /\ e.organizationId = m.organizationId
       /\ AuditLogRow(m.userId, m.organizationId) \in auditLogs
  /\ (enterRes # NoEnterResponse /\ enterRes.caller.platformRole # "SUPER_ADMIN") =>
       /\ enterRes.status = 403
       /\ enterPc = NoEnter
       /\ \A e \in entered : e.platformRole = "SUPER_ADMIN"

\* ------------------------------------------------------------------------
\* The contact page (routes/contact/+page.svelte)
\* ------------------------------------------------------------------------
\* the timers setTimeout holds at once
MaxTimers == 2

Fields == {"name", "email", "subject", "message"}
FieldValues == {"", "a", "b"}

\* {#if submitted} the thank-you message {:else} the form {/if}, with every
\* block showing the form
render_alwaysForm(isSubmitted) == "form"

\* {#if submitted} the thank-you message {:else} the form {/if}
render(isSubmitted) == IF isSubmitted THEN "thanks" ELSE "form"

\* the page is opened: a new instance of the component with its initial state
MountContact ==
  /\ ~contactMounted
  /\ contactMounted' = TRUE
  /\ formData' = EmptyForm
  /\ submitted' = FALSE
  /\ shown' = render(FALSE)
  /\ UNCHANGED <<pendingTimers, staleTimers, exceptContact>>

\* the user leaves the page: the component is destroyed, its timer is not
\* cleared
DestroyContact ==
  /\ contactMounted
  /\ contactMounted' = FALSE
  /\ shown' = "none"
  /\ formData' = EmptyForm
  /\ submitted' = FALSE
  /\ staleTimers' = staleTimers + pendingTimers
  /\ pendingTimers' = 0
  /\ UNCHANGED exceptContact

\* bind:value of an input of the form
Input(field, value) ==
  /\ shown = "form"
  /\ formData' = [formData EXCEPT ![field] = value]
  /\ UNCHANGED <<contactMounted, submitted, shown, pendingTimers, staleTimers,
                 exceptContact>>

\* on:submit of the rendered form, whose inputs are all required
handleSubmit ==
  /\ shown = "form"
  /\ \A f \in Fields : formData[f] # ""
  /\ pendingTimers + staleTimers < MaxTimers
  /\ submitted' = TRUE
  /\ pendingTimers' = pendingTimers + 1
  /\ shown' = render(TRUE)
  /\ UNCHANGED <<contactMounted, formData, staleTimers, exceptContact>>

\* the callback of setTimeout(..., 3000) of the mounted page
ResetTimer ==
  /\ pendingTimers > 0
  /\ pendingTimers' = pendingTimers - 1
  /\ submitted' = FALSE
  /\ formData' = EmptyForm
  /\ shown' = render(FALSE)
  /\ UNCHANGED <<contactMounted, staleTimers, exceptContact>>

\* the callback of a timer of a destroyed page: it assigns the variables of
\* that instance, nothing is rendered
StaleTimer ==
  /\ staleTimers > 0
  /\ staleTimers' = staleTimers - 1
  /\ UNCHANGED <<contactMounted, formData, submitted, shown, pendingTimers,
                 exceptContact>>

NextContact ==
  \/ MountContact
  \/ DestroyContact
  \/ \E f \in Fields, v \in FieldValues : Input(f, v)
  \/ handleSubmit
  \/ ResetTimer
  \/ StaleTimer

SpecContact == Init /\ [][NextContact]_vars

\* ------------------------------------------------------------------------
\* Properties of the contact page
\* ------------------------------------------------------------------------
\* C20 as claimed: the thank-you message is shown in place of the form
\* exactly while submitted is true, and at any time at most one reset timer
\* is pending.
C20_AtMostOneTimerAtAnyTime ==
  /\ contactMounted => shown = (IF submitted THEN "thanks" ELSE "form")
  /\ pendingTimers + staleTimers <= 1

\* C20 as amended: a submit happens only while the form is shown and makes
\* the page show the thank-you message; the mounted page has one pending
\* reset timer exactly while submitted is true and never more; when that
\* timer fires the form is shown again with name, email, subject and message
\* empty.
C20_OneResetTimerPerPage ==
  /\ [](contactMounted => shown = (IF submitted THEN "thanks" ELSE "form"))
  /\ [](pendingTimers <= 1 /\ (submitted <=> pendingTimers = 1))
  /\ [][handleSubmit => (~submitted /\ shown' = "thanks" /\ pendingTimers' = 1)]_vars
  /\ [][ResetTimer => (shown' = "form" /\ formData' = EmptyForm /\ ~submitted'
                         /\ pendingTimers' = 0)]_vars

\* the form was filled in and submitted: the thank-you message is shown and
\* the reset timer is pending
C20_Witness ==
  /\ contactMounted
  /\ submitted
  /\ shown = "thanks"
  /\ pendingTimers = 1
  /\ \A f \in Fields : formData[f] # ""

\* ------------------------------------------------------------------------
\* Further properties of the WorkOS synchronisation
\* ------------------------------------------------------------------------
\* the user.created events WorkOS may deliver now
UserCreatedInFlight == {e \in inflight : e.event = "user.created"}

\* C21: handling user.created for a workosId that has a local row leaves the
\* users table as it is (isActive and the stored profile included), and
\* handling the same event twice gives the users table that handling it once
\* gives.
C21_UserCreatedIdempotent ==
  \A e \in UserCreatedInFlight :
    LET once == handleUserCreated(Db, e.data).db
        twice == handleUserCreated(once, e.data).db
    IN /\ twice.users = once.users
       /\ userFindUnique(users, e.data.id) # {} => once.users = users

\* a user.created event is delivered again after it was answered 200, while
\* the local row is soft-deleted or holds another profile than the event
C21_Witness ==
  \E e \in UserCreatedInFlight, r \in users :
    /\ r.workosId = e.data.id
    /\ resp.op = "webhook" /\ resp.status = 200 /\ resp.who = e.data.id
    /\ ~r.isActive \/ r.email # e.data.email

\* the cases of handleWorkOS's switch
HandledEvents ==
  {"user.created", "user.updated", "user.deleted", "organization.created",
   "organization.updated", "organization.deleted",
   "organization_membership.created", "organization_membership.deleted"}

\* WorkOS emits an event of a type the switch has no case for
WorkOSSessionCreated(u) ==
  /\ wUsers[u].state = "active"
  /\ Emit("session.created", UserData(u, wUsers[u].profile), MaxEvents)
  /\ UNCHANGED <<wUsers, wOrgs, wMembers, users, organizations, memberships,
                 softDeleted, orgSoftDeleted, lost, resp, exceptSync>>

NextWebhook ==
  \/ \E u \in WorkosUserIds, p \in Profiles : WorkOSUserCreated(u, p)
  \/ \E u \in WorkosUserIds : WorkOSUserDeleted(u)
  \/ \E u \in WorkosUserIds : WorkOSSessionCreated(u)
  \/ \E e \in inflight, ok \in BOOLEAN, last \in BOOLEAN : DeliverWebhook(e, ok, last)

SpecWebhook == Init /\ [][NextWebhook]_vars

\* C22: a POST /webhooks/workos whose signature does not verify is answered
\* 400 and leaves users, organizations and memberships as they are; a
\* verified event of a type outside the eight handled ones is answered
\* {received: true} and leaves the three tables as they are.
C22_RejectedOrUnhandledChangesNothing ==
  [][\A e \in inflight, last \in BOOLEAN :
       /\ DeliverWebhook(e, FALSE, last) =>
            /\ resp'.status = 400
            /\ UNCHANGED <<users, organizations, memberships>>
       /\ (e.event \notin HandledEvents /\ DeliverWebhook(e, TRUE, last)) =>
            /\ resp'.status = 200 /\ resp'.code = "received"
            /\ UNCHANGED <<users, organizations, memberships>>]_vars

\* a verified session.created event was delivered and answered 200, and
\* WorkOS delivers it once more
C22_Witness ==
  \E e \in inflight :
    /\ e.event = "session.created"
    /\ e.left < MaxCopies
    /\ resp.op = "webhook" /\ resp.status = 200 /\ resp.who = e.data.id
    /\ users # {}

\* C23: a request workosAuthMiddleware answers with 401 leaves the users
\* table as it is; the middleware creates a row or updates lastLoginAt only
\* for a request it passes on with next().
C23_RejectedRequestWritesNothing ==
  [][\A c \in Cookies, t \in Times :
       (workosAuthMiddleware(c, t) /\ resp'.status = 401) => users' = users]_vars

\* ------------------------------------------------------------------------
\* Concurrent first logins (workosAuthMiddleware, AuthController.callback)
\* ------------------------------------------------------------------------
\* both handlers read the row and write it in two awaits
LoginKinds == {"middleware", "callback"}

\* the request arrives with a valid session (or code) of an active WorkOS
\* user and runs up to the result of prisma.user.findUnique
FindUnique(i, kind, u) ==
  LET found == userFindUnique(users, u)
  IN /\ reqs[i].pc = "idle"
     /\ wUsers[u].state = "active"
     /\ reqs' = [reqs EXCEPT ![i] =
                   [kind |-> kind, user |-> u, pc |-> "read",
                    found |-> found # {},
                    active |-> \E r \in found : r.isActive,
                    fresh |-> found = {}, admitted |-> FALSE, status |-> 0]]
     /\ UNCHANGED <<syncVars, exceptSyncRace>>

\* the status of a request whose write threw: the middleware's catch answers
\* 401 INVALID_SESSION, the callback's 500
thrownStatus(kind) == IF kind = "middleware" THEN 401 ELSE 500

\* the status of an admitted request: next() sends nothing, the callback
\* redirects
admittedStatus(kind) == IF kind = "middleware" THEN 0 ELSE 302

\* the rest of the request: prisma.user.create when findUnique found no row,
\* else the update of lastLoginAt; then the middleware's isActive check on the
\* row it read
CreateOrUpdate(i, t) ==
  LET r == reqs[i]
      p == wUsers[r.user].profile
      old == CHOOSE x \in userFindUnique(users, r.user) : TRUE
      w == IF r.found
             THEN userUpdate(users, r.user, [old EXCEPT !.lastLoginAt = t])
             ELSE userCreate(users, UserRow(r.user, p.email, OrEmpty(p.firstName),
                                            OrEmpty(p.lastName), t))
      admitted == w.ok /\ (r.kind = "callback" \/ ~r.found \/ r.active)
  IN /\ r.pc = "read"
     /\ users' = w.users
     /\ reqs' = [reqs EXCEPT ![i].pc = "done",
                              ![i].admitted = admitted,
                              ![i].status = IF admitted THEN admittedStatus(r.kind)
                                            ELSE IF w.ok THEN 401
                                            ELSE thrownStatus(r.kind)]
     /\ UNCHANGED <<wUsers, wOrgs, wMembers, inflight, sent, organizations,
                    memberships, softDeleted, orgSoftDeleted, lost, resp,
                    exceptSyncRace>>

NextRace ==
  \/ \E u \in WorkosUserIds, p \in Profiles : WorkOSUserCreated(u, p)
  \/ \E e \in inflight, last \in BOOLEAN : DeliverWebhook(e, TRUE, last)
  \/ \E i \in RequestIds, kind \in LoginKinds, u \in WorkosUserIds : FindUnique(i, kind, u)
  \/ \E i \in RequestIds, t \in Times : CreateOrUpdate(i, t)

SpecRace == Init /\ [][NextRace]_vars

\* the finished requests of a user who had no local row when they read it
FirstLogins(u) == {i \in RequestIds : reqs[i].user = u /\ reqs[i].fresh}

\* C24: when the requests that found no local row of a WorkOS user have all
\* finished, whether they ran one after the other or concurrently with each
\* other or with the user.created webhook, exactly one row of that user
\* exists and each of these requests was admitted.
C24_ConcurrentFirstLoginsAdmitted ==
  \A u \in WorkosUserIds :
    (FirstLogins(u) # {} /\ \A i \in FirstLogins(u) : reqs[i].pc = "done") =>
      /\ Cardinality(userFindUnique(users, u)) = 1
      /\ \A i \in FirstLogins(u) : reqs[i].admitted

\* C25: a response of the OAuth callback with an error status (400 or 500)
\* sets no workos_session cookie; the cookie is set only on the responses that
\* redirect to returnTo.
C25_ErrorResponseSetsNoCookie ==
  resp.op = "callback" =>
    /\ resp.status \in {400, 500} => ~resp.cookie
    /\ resp.cookie => resp.status = 302

\* ------------------------------------------------------------------------
\* Further properties of QueueService.sendBatch
\* ------------------------------------------------------------------------
\* C26: a call of sendBatch that returned without throwing sent every
\* message of its input and SQS reported no entry of any batch as failed.
C26_ResolvesOnlyIfAllAccepted ==
  sbPc = "returned" =>
    /\ Len(Bodies_(sbRequests)) = Len(sbMessages)
    /\ sbFailed = {}

\* ------------------------------------------------------------------------
\* Further properties of the worker
\* ------------------------------------------------------------------------
\* C27: a notification with the status SENT keeps it in every step of the
\* worker and the queue, whatever message is redelivered or processed again.
C27_SentStaysSent ==
  [][\A m \in MessageIds :
       notifications[m] = "SENT" => notifications'[m] = "SENT"]_vars

C30_OneListenerWhileMounted ==
  /\ [](listeners = IF mounted THEN 1 ELSE 0)
  /\ [][(~mounted /\ ~mounted') => scrolled' = scrolled]_vars

\* the component was scrolled past the threshold, then unmounted, and the
\* window is back at the top: scrolled kept its value and no listener is left
C30_Witness ==
  /\ ~mounted /\ navRevision # 0 /\ listeners = 0
  /\ scrolled /\ scrollY = 0

\* ------------------------------------------------------------------------
\* The support page: <Navigation darkBackground={true} /> and the list of
\* frequently asked questions
\* ------------------------------------------------------------------------
\* faqs.length
NumFaqs == 6

\* the index of {#each faqs as faq, index}
FaqIndices == 0..(NumFaqs - 1)

\* a toggleFaq where a click closes whichever entry is open and opens the
\* clicked one only when none is
toggleFaq_closesOpenEntry(open, index) == IF open # NoIndex THEN NoIndex ELSE index

\* openIndex = openIndex === index ? null : index
toggleFaq(open, index) == IF open = index THEN NoIndex ELSE index

\* {#if openIndex === index} <p>{faq.answer}</p> {/if}, for each entry
renderFaqs(open) == {index \in FaqIndices : open = index}

\* the page is opened: openIndex = $state(null), and its Navigation mounts
\* with darkBackground true
MountSupport ==
  /\ ~supportMounted
  /\ ~mounted
  /\ navRevision \in {0, 3}
  /\ supportMounted' = TRUE
  /\ openIndex' = NoIndex
  /\ visibleAnswers' = renderFaqs(openIndex')
  /\ navRevision' = 3
  /\ darkBackground' = TRUE
  /\ scrolled' = FALSE
  /\ mounted' = TRUE
  /\ listeners' = addEventListener(listeners)
  /\ UNCHANGED <<scrollY, exceptNavFaq>>

\* onclick={() => toggleFaq(index)} of the button of entry index, then the
\* list is rendered again
ToggleFaq(index) ==
  /\ supportMounted
  /\ openIndex' = toggleFaq(openIndex, index)
  /\ visibleAnswers' = renderFaqs(openIndex')
  /\ UNCHANGED <<supportMounted, exceptFaq>>

\* the user leaves the page: the page and its Navigation are destroyed
DestroySupport ==
  /\ supportMounted
  /\ supportMounted' = FALSE
  /\ openIndex' = NoIndex
  /\ visibleAnswers' = {}
  /\ mounted' = FALSE
  /\ listeners' = removeEventListener(listeners)
  /\ UNCHANGED <<navRevision, darkBackground, scrolled, scrollY, exceptNavFaq>>

NextFaq ==
  \/ MountSupport
  \/ \E index \in FaqIndices : ToggleFaq(index)
  \/ \E y \in ScrollPositions : Scroll(y)
  \/ DestroySupport

SpecFaq == Init /\ [][NextFaq]_vars

\* ------------------------------------------------------------------------
\* Properties of the support page
\* ------------------------------------------------------------------------
\* C29: at any time openIndex is null or the index of an existing FAQ and at
\* most one answer is rendered, the one of the open entry; a click on entry
\* i sets openIndex to null if i was open and to i otherwise.
C29_AtMostOneAnswerVisible ==
  /\ [](/\ openIndex \in FaqIndices \cup {NoIndex}
        /\ Cardinality(visibleAnswers) <= 1
        /\ visibleAnswers = {index \in FaqIndices : supportMounted /\ index = openIndex})
  /\ [][\A index \in FaqIndices :
          ToggleFaq(index) =>
            openIndex' = (IF openIndex = index THEN NoIndex ELSE index)]_vars

\* the last entry is open on the scrolled page, and only its answer is
\* rendered
C29_Witness ==
  /\ supportMounted /\ scrolled
  /\ openIndex = NumFaqs - 1
  /\ visibleAnswers = {NumFaqs - 1}

====
